---- MODULE Spec2Model ----
(***************************************************************************)
(* Verification model of the VR-glove BLE monitor: the protocol decoder    *)
(* (ble_debug_app/data_parser.py), service verification                    *)
(* (ESP32BLEService.check_services), the queue-backed CSV loggers          *)
(* (util/imu_log.py, util/sensor_log.py, util/base_log.py) and the         *)
(* connection / heartbeat / service-orchestration state machine            *)
(* (presenter/connection_presenter.py, model/device_manager.py,            *)
(* model/esp32_service.py).                                                *)
(***************************************************************************)
EXTENDS Integers, Sequences, FiniteSets, TLC

VARIABLES
    \* ---- protocol decoder (DataParser) ----
    payload,        \* byte sequence handed to parse_data
    uuid,           \* stream identity handed to parse_data
    ppc,            \* "init" | "once" | "twice"
    dtype,          \* data type identify_data_type gave to the payload
    res1,           \* result of the first parse_data call
    res2,           \* result of the second parse_data call
    dbg,            \* result of BLEDebugService.parse_imu_data on the payload
    \* ---- service verification (ESP32BLEService.check_services) ----
    vconnected,     \* client present and connected when check_services starts
    vpolls,         \* what the transport reports at each poll of the loop
    vpc,            \* "init" | "done"
    vresult,        \* [ok, polls]: return value and number of polls made
    \* ---- one logging channel (IMULog / SensorLog / BaseLog) ----
    lkind,          \* which logger class the channel is: "imu" | "sensor" | "base"
    is_logging,     \* self.is_logging
    stop_thread,    \* self.stop_threads / self.stop_thread
    lqueue,         \* the channel's queue.Queue(maxsize=1000), oldest first
    lres,           \* file, writer (and for IMULog the queue) of the channel exist
    lfile,          \* lines of the channel's current CSV file
    lopen,          \* the file object is open
    row_count,      \* self.row_counts[n] / self.row_count
    thr,            \* consumer threads: [pc, item] per thread id
    cur,            \* thread the logger still references (0: none)
    spc,            \* event-loop thread inside stop_logging: "idle" | "join" | "footer" | "close"
    restart,        \* stop_logging was entered from start_logging
    session,        \* number of start_logging calls so far
    nextId,         \* id the next write_csv call gives its record
    dropped,        \* ids of the session refused by a full queue
    taken,          \* records consumers took off the queue while logging
    \* ---- session: transport (BLEService and the BLE stack) ----
    client,         \* BLEService.client: "none" | "open" | "dropped" (link lost)
    connected_device, \* BLEService.connected_device is set
    subs,           \* streams the transport is notifying on
    fail_budget,    \* per stream: subscribe refusals the transport still makes
    resub,          \* streams start_notify was called on while notifying, last pass
    \* ---- session: application ----
    status,         \* DeviceProfile connection status text
    view_is_connected, \* DeviceMonitorView.is_connected
    app,            \* "running" | "exited"
    upc,            \* connection dialog flow: "idle" | "dialog" | "starting"
    _heartbeat_task, \* DeviceMonitorView._heartbeat_task is set
    hbpc,           \* where the heartbeat task is in _check_connection
    hbattempt,      \* reconnect attempts started since the connection was lost
    hbname,         \* `name` while it is live: what read_device_name returned
    sspc,           \* where start_services is: "idle" | "passes" | "sync" | "cleanup" | "clear" | "ret"
    sscaller,       \* who awaits start_services: "none" | "ok" | "hb"
    ssattempt,      \* attempts every pending _start_service_with_retry has made
    sspending,      \* services whose retry loop has not ended
    ssfailed,       \* services whose retry loop ended in failure
    ssresult,       \* return value of start_services
    dmpc,           \* DeviceManager.disconnect task: "none" | "stops" | "clear" | "disc"
    dmkind,         \* what started it: "none" | "user" | "exit"
    log_button,     \* LogView.log_button is enabled (set_button_states)
    imu_logging,    \* the IMU loggers' is_logging
    sensor_logging, \* the sensor logger's is_logging
    cpc,            \* ESP32BLEService.connect: "idle" | "entry" | "attempts" | "verify" | "ret"
    cattempt,       \* transport connect attempts connect has made
    cresult,        \* return value of connect
    cprior,         \* is_connected() as connect found it on entry
    cwhy,           \* which return statement connect left by
    ncb,            \* _callbacks[uuid] of one stream: "none" | "cb"
    nsub,           \* the transport notifies on that stream
    ninflight,      \* notifications received whose handler has not run yet
    ndelivered,     \* records the stream's listener has been given
    nout,           \* how the last start or stop on the stream ended
    nres,           \* what it returned
    session_cap,    \* logging sessions a run of the channel may start
    write_cap,      \* records a run of the channel may write per session
    mlog,           \* LogManager's loggers: channel -> is_logging
    mlast,          \* the last call on the LogManager: "none" | "start" | "stop"
    mfailed,        \* channels whose start_logging failed in that call
    mres,           \* what the call returned
    mdelivered,     \* channel -> records given to the channel's listener
    mrows,          \* channel -> records the channel's logger accepted
    rloop,          \* service -> its _start_service_with_retry call: pc, attempts
                    \* made, what it returned, whether an attempt raised
    gres,           \* what the gather in start_services collected, once done
    cblock,         \* the device's 15-byte configuration block
    ctask,          \* update task -> pc, the block it read, the value it is to
                    \* write, whether its write_config succeeded
    profile_instance,   \* DeviceProfile._instance and its fields
    device_info,        \* the device given to the last connect_to_device
    connect_target      \* the address of the profile given to service.connect

parseVars == <<payload, uuid, ppc, dtype, res1, res2, dbg>>

verifyVars == <<vconnected, vpolls, vpc, vresult>>

logVars == <<lkind, is_logging, stop_thread, lqueue, lres, lfile, lopen,
             row_count, thr, cur, spc, restart, session, nextId,
             dropped, taken, session_cap, write_cap>>

hbVars == <<_heartbeat_task, hbpc, hbattempt, hbname>>

ssVars == <<sspc, sscaller, ssattempt, sspending, ssfailed, ssresult, resub>>

dmVars == <<dmpc, dmkind>>

connVars == <<client, connected_device, subs, fail_budget,
              resub, status, view_is_connected, app, upc, hbVars,
              ssVars, dmVars, log_button, imu_logging, sensor_logging>>

callVars == <<cpc, cattempt, cresult, cprior, cwhy>>

notifyVars == <<ncb, nsub, ninflight, ndelivered, nout, nres>>

managerVars == <<mlog, mlast, mfailed, mres, mdelivered, mrows>>

retryVars == <<rloop, gres>>

cfgVars == <<cblock, ctask>>

profVars == <<profile_instance, device_info, connect_target>>

auxVars == <<managerVars, retryVars, cfgVars, profVars>>

vars == <<parseVars, verifyVars, logVars, connVars, callVars, notifyVars, auxVars>>

-----------------------------------------------------------------------------
(***************************************************************************)
(* Generic helpers                                                         *)
(***************************************************************************)
Range(s) == {s[i] : i \in DOMAIN s}

SetMax(S) == CHOOSE m \in S : \A x \in S : x <= m

NoResult == [kind |-> "none"]

\* outcome of a Python call that ended in an exception
Raised == [kind |-> "raise"]

-----------------------------------------------------------------------------
(***************************************************************************)
(* Protocol decoder: ble_debug_app/data_parser.py                          *)
(***************************************************************************)
MaxPayloadLen == 255

\* struct.unpack('<h', b0 b1): little-endian two's complement int16
Int16LE(b0, b1) ==
    LET u == b0 + 256 * b1 IN IF u >= 32768 THEN u - 65536 ELSE u

\* struct.unpack('<H', b0 b1)
UInt16LE(b0, b1) == b0 + 256 * b1

Abs(x) == IF x < 0 THEN -x ELSE x

\* struct.unpack(fmt, data) raises struct.error unless len(data) == size
UnpackOk(data, size) == Len(data) = size

\* bytes.decode('utf-8') succeeds iff the bytes are well-formed UTF-8
IsCont(b) == b >= 128 /\ b <= 191

RECURSIVE Utf8ValidFrom(_, _)
Utf8ValidFrom(d, i) ==
    IF i > Len(d) THEN TRUE
    ELSE LET b == d[i]
             has(n) == i + n <= Len(d)
         IN  IF b < 128 THEN Utf8ValidFrom(d, i + 1)
             ELSE IF b >= 194 /\ b <= 223
                  THEN has(1) /\ IsCont(d[i+1]) /\ Utf8ValidFrom(d, i + 2)
             ELSE IF b = 224
                  THEN has(2) /\ d[i+1] >= 160 /\ d[i+1] <= 191
                       /\ IsCont(d[i+2]) /\ Utf8ValidFrom(d, i + 3)
             ELSE IF b = 237
                  THEN has(2) /\ d[i+1] >= 128 /\ d[i+1] <= 159
                       /\ IsCont(d[i+2]) /\ Utf8ValidFrom(d, i + 3)
             ELSE IF b >= 225 /\ b <= 239
                  THEN has(2) /\ IsCont(d[i+1]) /\ IsCont(d[i+2])
                       /\ Utf8ValidFrom(d, i + 3)
             ELSE IF b = 240
                  THEN has(3) /\ d[i+1] >= 144 /\ d[i+1] <= 191
                       /\ IsCont(d[i+2]) /\ IsCont(d[i+3])
                       /\ Utf8ValidFrom(d, i + 4)
             ELSE IF b >= 241 /\ b <= 243
                  THEN has(3) /\ IsCont(d[i+1]) /\ IsCont(d[i+2])
                       /\ IsCont(d[i+3]) /\ Utf8ValidFrom(d, i + 4)
             ELSE IF b = 244
                  THEN has(3) /\ d[i+1] >= 128 /\ d[i+1] <= 143
                       /\ IsCont(d[i+2]) /\ IsCont(d[i+3])
                       /\ Utf8ValidFrom(d, i + 4)
             ELSE FALSE

Utf8Valid(d) == Utf8ValidFrom(d, 1)

\* DataType constants
IMU_RAW == "imu_raw"
IMU_EULER == "imu_euler"
CONFIG == "config"
FLEX_SENSOR == "flex_sensor"
JOYSTICK == "joystick"
BATTERY == "battery"
CHARGING == "charging"
DEVICE_INFO == "device_info"
OVERALL_STATUS == "overall_status"
BUTTONS == "buttons"
FORCE_SENSOR == "force_sensor"
UNKNOWN == "unknown"
\* an exception escaping identify_data_type
TYPE_ERROR == "raise"

DataTypes == {IMU_RAW, IMU_EULER, CONFIG, FLEX_SENSOR, JOYSTICK, BATTERY,
              CHARGING, DEVICE_INFO, OVERALL_STATUS, BUTTONS, FORCE_SENSOR,
              UNKNOWN}

\* the same dispatch with the content test of the 4-byte case hoisted above
\* the emptiness guard: max() of an empty payload raises ValueError
identify_data_type_hoisted(data, id) ==
    LET length == Len(data) IN
    IF length = 0 THEN TYPE_ERROR
    ELSE IF length = 18 THEN IMU_RAW
    ELSE IF length = 13 THEN IMU_EULER
    ELSE IF length = 15 THEN CONFIG
    ELSE IF length = 20 THEN FLEX_SENSOR
    ELSE IF length = 5 THEN JOYSTICK
    ELSE IF length = 4 THEN
        IF \A i \in 1..4 : data[i] <= 3
        THEN (IF SetMax(Range(data)) > 1 THEN OVERALL_STATUS ELSE BUTTONS)
        ELSE FORCE_SENSOR
    ELSE IF length = 1 THEN
        (IF data[1] <= 100 THEN BATTERY ELSE CHARGING)
    ELSE IF 1 <= length /\ length <= 12 THEN DEVICE_INFO
    ELSE UNKNOWN

\* the same dispatch with the 1..12 range test placed ahead of the 5-byte test
identify_data_type_reordered(data, id) ==
    LET length == Len(data) IN
    IF length = 0 THEN UNKNOWN
    ELSE IF length = 18 THEN IMU_RAW
    ELSE IF length = 13 THEN IMU_EULER
    ELSE IF length = 15 THEN CONFIG
    ELSE IF length = 20 THEN FLEX_SENSOR
    ELSE IF length = 4 THEN
        IF \A i \in 1..4 : data[i] <= 3
        THEN (IF SetMax(Range(data)) > 1 THEN OVERALL_STATUS ELSE BUTTONS)
        ELSE FORCE_SENSOR
    ELSE IF length = 1 THEN
        (IF data[1] <= 100 THEN BATTERY ELSE CHARGING)
    ELSE IF 1 <= length /\ length <= 12 THEN DEVICE_INFO
    ELSE IF length = 5 THEN JOYSTICK
    ELSE UNKNOWN

identify_data_type(data, id) ==
    LET length == Len(data) IN
    IF length = 0 THEN UNKNOWN
    ELSE IF length = 18 THEN IMU_RAW
    ELSE IF length = 13 THEN IMU_EULER
    ELSE IF length = 15 THEN CONFIG
    ELSE IF length = 20 THEN FLEX_SENSOR
    ELSE IF length = 5 THEN JOYSTICK
    ELSE IF length = 4 THEN
        IF \A i \in 1..4 : data[i] <= 3
        THEN (IF SetMax(Range(data)) > 1 THEN OVERALL_STATUS ELSE BUTTONS)
        ELSE FORCE_SENSOR
    ELSE IF length = 1 THEN
        (IF data[1] <= 100 THEN BATTERY ELSE CHARGING)
    ELSE IF 1 <= length /\ length <= 12 THEN DEVICE_INFO
    ELSE UNKNOWN


\* f-string / table lookups of the parser
status_map(b) ==
    CASE b = 0 -> "Not Detected" [] b = 1 -> "Failed" [] b = 2 -> "Idle"
      [] b = 3 -> "Running" [] OTHER -> "Unknown"

\* _charging_map.get(b, ...) with the first label as the default
charging_map_first_default(b) ==
    CASE b = 1 -> "Charging" [] b = 2 -> "Fully Charged" [] OTHER -> "Not Charging"

charging_map(b) ==
    CASE b = 0 -> "Not Charging" [] b = 1 -> "Charging"
      [] b = 2 -> "Fully Charged" [] OTHER -> "Unknown State"

cmd_map(b) ==
    CASE b = 0 -> "IDLE" [] b = 1 -> "RUN" [] b = 2 -> "Start calibration IMU 1"
      [] b = 3 -> "Start calibration IMU 2" [] OTHER -> "Unknown"

\* struct.unpack('<f', d[i..i+3]): the float32 bit pattern, kept as its high
\* and low 16-bit halves
Bits32(d, i) == [hi |-> d[i+2] + 256 * d[i+3], lo |-> d[i] + 256 * d[i+1]]

\* IEEE-754 single precision: sign bit and magnitude of the high half
FloatNeg(f) == f.hi >= 32768
FloatMagHi(f) == f.hi % 32768

\* -180 <= x <= 180 on the float with these bits (180.0 is 0x43340000);
\* a NaN compares false
FloatInEulerRange(f) ==
    FloatMagHi(f) < 17204 \/ (FloatMagHi(f) = 17204 /\ f.lo = 0)

\* 10 <= x <= 110 on the float with these bits (0x41200000, 0x42DC0000)
FloatInFlexRange(f) ==
    /\ ~FloatNeg(f)
    /\ f.hi >= 16672
    /\ (f.hi < 17116 \/ (f.hi = 17116 /\ f.lo = 0))

_format_raw_data(data) ==
    [kind |-> "raw", hex |-> data,
     ascii |-> [i \in 1..Len(data) |->
                  IF data[i] >= 32 /\ data[i] <= 126 THEN data[i] ELSE 46]]

_parse_imu_raw(data) ==
    IF ~UnpackOk(data, 18) THEN Raised
    ELSE LET values == [k \in 1..9 |-> Int16LE(data[2*k - 1], data[2*k])]
             rng(a, b, c) == SetMax({Abs(values[a]), Abs(values[b]), Abs(values[c])})
         IN  [kind |-> IMU_RAW, values |-> values,
              warnings |-> (IF rng(1, 2, 3) > 16000 THEN {"accel"} ELSE {})
                      \cup (IF rng(4, 5, 6) > 2000 THEN {"gyro"} ELSE {})
                      \cup (IF rng(7, 8, 9) > 4800 THEN {"mag"} ELSE {})]

_parse_imu_euler(data) ==
    IF Len(data) < 13 THEN Raised
    ELSE LET euler == [k \in 1..3 |-> Bits32(data, 4*k - 3)]
         IN  [kind |-> IMU_EULER, euler |-> euler, calib |-> data[13],
              warnings |-> IF \A k \in 1..3 : FloatInEulerRange(euler[k])
                           THEN {} ELSE {"euler"}]

imu_limits ==
    [accel_gyro_freq |-> [min |-> 10, max |-> 1000],
     mag_freq        |-> [min |-> 10, max |-> 100],
     accel_range     |-> [min |-> 2, max |-> 16],
     gyro_range      |-> [min |-> 125, max |-> 2000],
     mag_range       |-> [min |-> 4, max |-> 16]]

parse_imu_config(data) ==
    IF Len(data) # 15 THEN NoResult
    ELSE LET config == [accel_gyro_freq |-> data[2], mag_freq |-> data[3],
                        accel_range |-> data[6], gyro_range |-> data[7],
                        mag_range |-> data[8]]
         IN  [kind |-> CONFIG, command |-> cmd_map(data[1]), cmd |-> data[1],
              fields |-> config,
              update_rate |-> UInt16LE(data[12], data[13]),
              warnings |-> {p \in DOMAIN imu_limits :
                              ~(imu_limits[p].min <= config[p]
                                /\ config[p] <= imu_limits[p].max)}]

_parse_config(data) ==
    LET config == parse_imu_config(data)
    IN  IF config = NoResult THEN [kind |-> "invalid_config"] ELSE config

_parse_flex_sensor(data) ==
    IF ~UnpackOk(data, 20) THEN Raised
    ELSE LET values == [k \in 1..5 |-> Bits32(data, 4*k - 3)]
         IN  [kind |-> FLEX_SENSOR, values |-> values,
              warnings |-> {k \in 1..5 : ~FloatInFlexRange(values[k])}]

_parse_joystick(data) ==
    IF Len(data) < 5 THEN Raised
    ELSE LET x == Int16LE(data[1], data[2])
             y == Int16LE(data[3], data[4])
         IN  [kind |-> JOYSTICK, x |-> x, y |-> y, pressed |-> data[5] = 1,
              warnings |-> IF 0 <= x /\ x <= 4095 /\ 0 <= y /\ y <= 4095
                           THEN {} ELSE {"range"},
              \* center_range = 4095 * 0.015 = 61.425
              center |-> Abs(x - 2047) <= 61 /\ Abs(y - 2047) <= 61]

_parse_overall_status(data) ==
    IF Len(data) < 4 THEN Raised
    ELSE [kind |-> OVERALL_STATUS, code |-> data[1],
          error |-> IF data[1] = 0 THEN "No Error" ELSE "General Error",
          fuelgauge |-> status_map(data[2]), imu1 |-> status_map(data[3]),
          imu2 |-> status_map(data[4])]

_parse_buttons(data) ==
    [kind |-> BUTTONS, states |-> [i \in 1..Len(data) |-> data[i] # 0]]

_parse_force_sensor(data) ==
    IF ~UnpackOk(data, 4) THEN Raised
    ELSE [kind |-> FORCE_SENSOR, force |-> Bits32(data, 1)]

_parse_battery(data) ==
    IF Len(data) < 1 THEN Raised
    ELSE [kind |-> BATTERY, level |-> data[1],
          warnings |-> IF data[1] <= 20 THEN {"low"} ELSE {}]

_parse_charging(data) ==
    IF Len(data) < 1 THEN Raised
    ELSE [kind |-> CHARGING, state |-> charging_map(data[1])]

\* "DegapVrGlove" and "NUS/Seamless" as UTF-8 bytes
ModelText == <<68, 101, 103, 97, 112, 86, 114, 71, 108, 111, 118, 101>>
ManufacturerText == <<78, 85, 83, 47, 83, 101, 97, 109, 108, 101, 115, 115>>

_parse_device_info(data, id) ==
    IF ~Utf8Valid(data) THEN _format_raw_data(data)
    ELSE IF Len(data) = 9 THEN
        [kind |-> DEVICE_INFO, text |-> data,
         label |-> IF id = "FIRMWARE_UUID" THEN "Firmware Version"
                   ELSE IF id = "HARDWARE_UUID" THEN "Hardware Version"
                   ELSE "Version"]
    ELSE IF Len(data) = 12 /\ data = ModelText THEN
        [kind |-> DEVICE_INFO, text |-> data, label |-> "Model"]
    ELSE IF Len(data) = 12 /\ data = ManufacturerText THEN
        [kind |-> DEVICE_INFO, text |-> data, label |-> "Manufacturer"]
    ELSE [kind |-> DEVICE_INFO, text |-> data, label |-> "Device Info"]

parse_dispatch(data_type, data, id) ==
    CASE data_type = IMU_RAW -> _parse_imu_raw(data)
      [] data_type = IMU_EULER -> _parse_imu_euler(data)
      [] data_type = CONFIG -> _parse_config(data)
      [] data_type = FLEX_SENSOR -> _parse_flex_sensor(data)
      [] data_type = JOYSTICK -> _parse_joystick(data)
      [] data_type = OVERALL_STATUS -> _parse_overall_status(data)
      [] data_type = BUTTONS -> _parse_buttons(data)
      [] data_type = FORCE_SENSOR -> _parse_force_sensor(data)
      [] data_type = BATTERY -> _parse_battery(data)
      [] data_type = CHARGING -> _parse_charging(data)
      [] data_type = DEVICE_INFO -> _parse_device_info(data, id)
      [] OTHER -> _format_raw_data(data)

\* BLEDebugService.parse_imu_data, the 4-byte branch: buttons when every byte
\* is <= 3 and the largest is <= 1, overall status when every byte is <= 3,
\* force sensor otherwise
parse_imu_data_4_zero(data) ==
    IF \A i \in 1..4 : data[i] <= 3
    THEN IF SetMax(Range(data)) < 1
         THEN [kind |-> BUTTONS, states |-> [i \in 1..4 |-> data[i] # 0]]
         ELSE [kind |-> OVERALL_STATUS, code |-> data[1],
               error |-> IF data[1] = 0 THEN "No Error" ELSE "General Error",
               fuelgauge |-> status_map(data[2]), imu1 |-> status_map(data[3]),
               imu2 |-> status_map(data[4])]
    ELSE [kind |-> FORCE_SENSOR, force |-> Bits32(data, 1)]

parse_imu_data_4(data) ==
    IF \A i \in 1..4 : data[i] <= 3
    THEN IF SetMax(Range(data)) <= 1
         THEN [kind |-> BUTTONS, states |-> [i \in 1..4 |-> data[i] # 0]]
         ELSE [kind |-> OVERALL_STATUS, code |-> data[1],
               error |-> IF data[1] = 0 THEN "No Error" ELSE "General Error",
               fuelgauge |-> status_map(data[2]), imu1 |-> status_map(data[3]),
               imu2 |-> status_map(data[4])]
    ELSE [kind |-> FORCE_SENSOR, force |-> Bits32(data, 1)]

\* BLEDebugService.parse_imu_data: the branch is chosen by length alone; the
\* branches other than the 1- and 4-byte ones are kept as their class
parse_imu_data(data) ==
    LET length == Len(data) IN
    IF length = 0 THEN [kind |-> "no_data"]
    ELSE IF length = 18 THEN [kind |-> IMU_RAW]
    ELSE IF length = 13 THEN [kind |-> IMU_EULER]
    ELSE IF length = 20 THEN [kind |-> FLEX_SENSOR]
    ELSE IF length = 15 THEN [kind |-> CONFIG]
    ELSE IF length = 5 THEN [kind |-> JOYSTICK]
    ELSE IF length = 4 THEN parse_imu_data_4(data)
    ELSE IF length = 1 THEN
        (IF data[1] <= 100 THEN [kind |-> BATTERY, level |-> data[1]]
         ELSE [kind |-> CHARGING,
               state |-> IF data[1] \in {0, 1, 2} THEN charging_map(data[1])
                         ELSE "Unknown"])
    ELSE [kind |-> "raw"]

\* identify_data_type runs outside the try block; the dispatch runs inside it
parse_data(data, id) ==
    LET data_type == identify_data_type(data, id)
    IN  IF data_type = TYPE_ERROR THEN Raised
        ELSE LET r == parse_dispatch(data_type, data, id)
             IN  IF r = Raised THEN [kind |-> "parse_error"] ELSE r



-----------------------------------------------------------------------------
(***************************************************************************)
(* Service verification: ESP32BLEService.check_services                    *)
(***************************************************************************)
RequiredServices == {"required_1", "required_2"}

\* one poll of the transport inside the discovery loop: the link is gone
\* ("lost"), reading client.services raises ("error"), or a service list is
\* reported ("list"; an empty list is falsy in `if not self.client.services`)
PollLost == [kind |-> "lost", services |-> {}]
PollError == [kind |-> "error", services |-> {}]
PollList(S) == [kind |-> "list", services |-> S]

max_retries == 5

RECURSIVE check_services_loop(_, _)
check_services_loop(polls, attempt) ==
    IF attempt > max_retries THEN [ok |-> TRUE, polls |-> max_retries]
    ELSE LET o == polls[attempt] IN
         IF o.kind = "lost" THEN [ok |-> FALSE, polls |-> attempt]
         ELSE IF o.kind = "error" THEN [ok |-> FALSE, polls |-> attempt]
         ELSE IF o.services = {} THEN check_services_loop(polls, attempt + 1)
         ELSE IF RequiredServices \subseteq o.services
              THEN [ok |-> TRUE, polls |-> attempt]
         ELSE IF attempt < max_retries
              THEN check_services_loop(polls, attempt + 1)
         ELSE [ok |-> FALSE, polls |-> attempt]

check_services(connected, polls) ==
    IF ~connected THEN [ok |-> FALSE, polls |-> 0]
    ELSE check_services_loop(polls, 1)

VerifyIdle ==
    /\ vconnected = FALSE
    /\ vpolls = <<>>
    /\ vpc = "idle"
    /\ vresult = [ok |-> FALSE, polls |-> 0]

-----------------------------------------------------------------------------
(***************************************************************************)
(* Logging channel: util/imu_log.py, util/sensor_log.py, util/base_log.py  *)
(*                                                                         *)
(* write_csv, start_logging and stop_logging run on the event-loop thread; *)
(* _process_queue runs on the channel's consumer thread.                   *)
(***************************************************************************)
QueueMaxsize == 1000

MaxSessions == 1
MaxWrites == 1002
MaxTaken == 1

ThreadIds == 1..(MaxSessions + 1)

HeaderLine == [t |-> "header", n |-> 0]
RowLine(id) == [t |-> "row", n |-> id]
FooterLine(total) == [t |-> "footer", n |-> total]

NoThread == [pc |-> "none", item |-> 0]

\* the decoder and the service verification take no part in logging
LogFrame == UNCHANGED <<parseVars, verifyVars, connVars, callVars, notifyVars,
                        auxVars, session_cap, write_cap>>

Alive(t) == thr[t].pc \notin {"none", "dead"}

\* queue.Queue() without a maxsize: put never refuses
QueuePutUnbounded(q, x) == [q |-> Append(q, x), ok |-> TRUE]

\* Queue.put(data, block=False): appends, or raises queue.Full at once
QueuePut(q, x) ==
    IF Len(q) < QueueMaxsize THEN [q |-> Append(q, x), ok |-> TRUE]
    ELSE [q |-> q, ok |-> FALSE]

\* LogManager.register_logger / unregister_logger, which the loggers call
\* and util/log_manager.py does not define: bookkeeping of the number of
\* active loggers that returns normally
register_logger == TRUE

\* IMULog.write_csv -> _setup_imu on the first record of a channel; opening
\* the file may fail, and then nothing of the channel exists
WriteImu(openOk) ==
    LET setup == ~lres
        have == lres \/ openOk
        q0 == IF setup THEN <<>> ELSE lqueue
        r == QueuePut(q0, nextId)
    IN  /\ lkind = "imu"
        /\ IF ~is_logging
           THEN UNCHANGED <<lqueue, lres, lfile, lopen, row_count, thr, cur, dropped>>
           ELSE IF ~have
           THEN UNCHANGED <<lqueue, lres, lfile, lopen, row_count, thr, cur,
                            dropped>>
           ELSE /\ lqueue' = r.q
                /\ dropped' = IF r.ok THEN dropped ELSE dropped \cup {nextId}
                /\ IF setup
                   THEN /\ lres' = TRUE
                        /\ lfile' = <<HeaderLine>>
                        /\ lopen' = TRUE
                        /\ row_count' = 0
                        /\ thr' = [thr EXCEPT ![session] = [pc |-> "loop", item |-> 0]]
                        /\ cur' = session
                   ELSE UNCHANGED <<lres, lfile, lopen, row_count, thr, cur>>

\* SensorLog.write_csv (and the write_csv a BaseLog subclass supplies)
WriteQueued ==
    LET r == QueuePut(lqueue, nextId)
    IN  /\ lkind \in {"sensor", "base"}
        /\ IF ~is_logging
           THEN UNCHANGED <<lqueue, dropped>>
           ELSE /\ lqueue' = r.q
                /\ dropped' = IF r.ok THEN dropped ELSE dropped \cup {nextId}
        /\ UNCHANGED <<lres, lfile, lopen, row_count, thr, cur>>

\* one write_csv call from the notification path
WriteCsv ==
    /\ spc = "idle"
    /\ session >= 1
    /\ nextId <= write_cap
    /\ \/ \E openOk \in BOOLEAN :
            /\ WriteImu(openOk)
            /\ nextId' = IF is_logging /\ (lres \/ openOk) THEN nextId + 1 ELSE nextId
       \/ /\ WriteQueued
          /\ nextId' = IF is_logging THEN nextId + 1 ELSE nextId
    /\ UNCHANGED <<lkind, is_logging, stop_thread, spc, restart, session, taken>>
    /\ LogFrame

\* _process_queue: `while not self.stop_thread(s)`
ConsumerCheck(t) ==
    /\ thr[t].pc = "loop"
    /\ thr' = [thr EXCEPT ![t].pc =
                 IF ~stop_thread THEN "get"
                 ELSE IF lkind = "base" THEN "drain" ELSE "dead"]
    /\ UNCHANGED <<lkind, is_logging, stop_thread, lqueue, lres, lfile, lopen,
                   row_count, cur, spc, restart, session, nextId,
                   dropped, taken>>
    /\ LogFrame

\* _process_queue: `self.queue.get(timeout=0.1)`; IMULog looks the queue up
\* in self.queues and dies of KeyError once stop_logging has cleared it
ConsumerGet(t) ==
    /\ thr[t].pc = "get"
    /\ IF lkind = "imu" /\ ~lres
       THEN /\ thr' = [thr EXCEPT ![t].pc = "dead"]
            /\ UNCHANGED <<lqueue, taken>>
       ELSE IF lqueue = <<>>
       THEN /\ thr' = [thr EXCEPT ![t].pc = "loop"]
            /\ UNCHANGED <<lqueue, taken>>
       ELSE /\ stop_thread \/ taken < MaxTaken
            /\ thr' = [thr EXCEPT ![t] = [pc |-> "got", item |-> Head(lqueue)]]
            /\ lqueue' = Tail(lqueue)
            /\ taken' = IF stop_thread THEN taken ELSE taken + 1
    /\ UNCHANGED <<lkind, is_logging, stop_thread, lres, lfile, lopen,
                   row_count, cur, spc, restart, session, nextId,
                   dropped>>
    /\ LogFrame

\* _write_data / _write_row under `if writer`: one row, flush, row count; a
\* write to a closed file raises and the bare except swallows it.  IMULog
\* then calls self.queues[imu_number].task_done() and dies of KeyError once
\* the queues are cleared
WriteRow(item) ==
    IF lres /\ lopen
    THEN /\ lfile' = Append(lfile, RowLine(item))
         /\ row_count' = row_count + 1
    ELSE UNCHANGED <<lfile, row_count>>

ConsumerWrite(t) ==
    /\ thr[t].pc = "got"
    /\ WriteRow(thr[t].item)
    /\ thr' = [thr EXCEPT ![t] = [pc |-> IF lkind = "imu" /\ ~lres
                                           THEN "dead" ELSE "loop",
                                   item |-> 0]]
    /\ UNCHANGED <<lkind, is_logging, stop_thread, lqueue, lres, lopen, cur,
                   spc, restart, session, nextId, dropped, taken>>
    /\ LogFrame

\* BaseLog._process_remaining_data: get_nowait until queue.Empty, run while
\* the event-loop thread waits in queue.join()
DrainRows(q, file) == file \o [i \in 1..Len(q) |-> RowLine(q[i])]

ConsumerDrain(t) ==
    /\ thr[t].pc = "drain"
    /\ IF lres /\ lopen
       THEN /\ lfile' = DrainRows(lqueue, lfile)
            /\ row_count' = row_count + Len(lqueue)
       ELSE UNCHANGED <<lfile, row_count>>
    /\ lqueue' = <<>>
    /\ thr' = [thr EXCEPT ![t].pc = "dead"]
    /\ UNCHANGED <<lkind, is_logging, stop_thread, lres, lopen, cur, spc,
                   restart, session, nextId, dropped, taken>>
    /\ LogFrame

\* stop_logging, first statements: flags (BaseLog returns at once when not
\* logging)
StopFlags(fromStart) ==
    /\ spc = "idle"
    /\ IF lkind = "base" /\ ~is_logging
       THEN UNCHANGED <<is_logging, stop_thread, spc, restart>>
       ELSE /\ is_logging' = FALSE
            /\ stop_thread' = TRUE
            /\ spc' = "join"
            /\ restart' = fromStart

StopLogging ==
    /\ StopFlags(FALSE)
    /\ UNCHANGED <<lkind, lqueue, lres, lfile, lopen, row_count, thr, cur,
                   session, nextId, dropped, taken>>
    /\ LogFrame

\* stop_logging: thread.join(timeout=1.0) returns when the consumer has
\* ended, or after a second if the consumer is held up inside a row write;
\* BaseLog first waits in queue.join() for every queued item's task_done
StopJoin ==
    /\ spc = "join"
    /\ \/ cur = 0
       \/ cur # 0 /\ ~Alive(cur)
       \/ cur # 0 /\ lkind # "base" /\ thr[cur].pc = "got"
    /\ spc' = "footer"
    /\ UNCHANGED <<lkind, is_logging, stop_thread, lqueue, lres, lfile, lopen,
                   row_count, thr, cur, restart, session, nextId,
                   dropped, taken>>
    /\ LogFrame

\* stop_logging: setup_footer with the current row count
StopFooter_always ==
    /\ spc = "footer"
    /\ spc' = "close"
    /\ lfile' = Append(lfile, FooterLine(row_count))
    /\ UNCHANGED <<lkind, is_logging, stop_thread, lqueue, lres, lopen,
                   row_count, thr, cur, restart, session, nextId,
                   dropped, taken>>
    /\ LogFrame

StopFooter ==
    /\ spc = "footer"
    /\ spc' = "close"
    /\ lfile' = IF lres /\ lopen THEN Append(lfile, FooterLine(row_count)) ELSE lfile
    /\ UNCHANGED <<lkind, is_logging, stop_thread, lqueue, lres, lopen,
                   row_count, thr, cur, restart, session, nextId,
                   dropped, taken>>
    /\ LogFrame

\* stop_logging: close the file and clear the resources; IMULog.start_logging
\* then goes on to set is_logging and clear stop_threads
StopClose ==
    /\ spc = "close"
    /\ spc' = "idle"
    /\ lopen' = FALSE
    /\ lres' = FALSE
    /\ row_count' = 0
    /\ cur' = 0
    /\ lqueue' = IF lkind = "base" THEN lqueue ELSE <<>>
    /\ restart' = FALSE
    /\ nextId' = 1
    /\ dropped' = {}
    /\ UNCHANGED taken
    /\ IF restart
       THEN /\ is_logging' = TRUE
            /\ stop_thread' = FALSE
            /\ session' = session + 1
       ELSE UNCHANGED <<is_logging, stop_thread, session>>
    /\ UNCHANGED <<lkind, lfile, thr>>
    /\ LogFrame

\* IMULog.start_logging: stop_logging() first, then the flags
StartImu ==
    /\ lkind = "imu"
    /\ session < session_cap
    /\ StopFlags(TRUE)
    /\ UNCHANGED <<lkind, lqueue, lres, lfile, lopen, row_count, thr, cur,
                   session, nextId, dropped, taken>>
    /\ LogFrame

\* SensorLog.start_logging / BaseLog.start_logging, called by the log view
\* only while the logger is not logging: file, header, consumer thread, flags
StartQueued ==
    /\ lkind \in {"sensor", "base"}
    /\ spc = "idle"
    /\ ~is_logging
    /\ session < session_cap
    /\ session' = session + 1
    /\ lqueue' = IF lkind = "base" THEN <<>> ELSE lqueue
    /\ lres' = TRUE
    /\ lfile' = <<HeaderLine>>
    /\ lopen' = TRUE
    /\ stop_thread' = FALSE
    /\ thr' = [thr EXCEPT ![session + 1] = [pc |-> "loop", item |-> 0]]
    /\ cur' = session + 1
    /\ is_logging' = register_logger
    /\ nextId' = 1
    /\ dropped' = {}
    /\ UNCHANGED <<lkind, row_count, spc, restart, taken>>
    /\ LogFrame

\* a logger as constructed
LogConstructed ==
    /\ is_logging = FALSE
    /\ stop_thread = FALSE
    /\ lqueue = <<>>
    /\ lres = FALSE
    /\ lfile = <<>>
    /\ lopen = FALSE
    /\ row_count = 0
    /\ thr = [t \in ThreadIds |-> NoThread]
    /\ cur = 0
    /\ spc = "idle"
    /\ restart = FALSE
    /\ session = 0
    /\ nextId = 1
    /\ dropped = {}
    /\ taken = 0

LogIdle ==
    /\ lkind = "imu"
    /\ LogConstructed
    /\ session_cap = MaxSessions
    /\ write_cap = MaxWrites

-----------------------------------------------------------------------------
(***************************************************************************)
(* Session: presenter/connection_presenter.py, model/device_manager.py,    *)
(* model/esp32_service.py and the presenters' start/stop of notifications. *)
(*                                                                         *)
(* Everything here runs as tasks of one asyncio event loop; an action is   *)
(* the code of one task between two suspension points.  The transport      *)
(* (BLEService base class and the BLE stack under it) is the environment.  *)
(***************************************************************************)
Streams == {"battery", "charging", "overall", "imu1", "imu2", "flex", "force",
            "joystick", "buttons"}

\* DeviceManager.start_services / cleanup: the service list and the critical set
services == <<"profile", "overall_status", "imu1", "imu2", "sensor", "gamepad", "log">>

ServiceNames == {services[i] : i \in DOMAIN services}

critical_services == {"imu1", "imu2"}

\* ESP32BLEService._start_notify_generic(retries=5)
retries == 5

\* OverallStatusPresenter.start_notifications: max_retries = 5
status_max_retries == 5

\* DeviceManager._start_service_with_retry(max_retries=10)
service_max_retries == 10

\* ConnectionPresenter._check_connection
MAX_RECONNECT_ATTEMPTS == 5

\* streams on which the transport may misbehave in one run
MaxFaulty == 1

\* a stream's subscribe fails this many times before it succeeds (5: one
\* whole _start_notify_generic call fails); Persistent never succeeds
Persistent == -1
FaultKinds == {5, Persistent}

\* the streams whose subscribe may fail in a run: a critical one and both
\* streams of a presenter that starts two
FaultStreams == {"imu1", "flex", "force"}

\* BLEService.is_connected(): a client exists and its link is up
is_connected == client = "open"

\* how the BLE stack answers start_notify on a stream that already notifies
DupPolicies == {"accept", "reject"}

\* client.start_notify(uuid, handler) as the transport answers it: a stream
\* that is already notifying is answered as the stack decides (accepted or
\* refused), a faulty stream refuses, anything else starts notifying
TransportSubscribe(s, st) ==
    IF s \in st.subs
    THEN [st EXCEPT !.resub = @ \cup {s}, !.ok = (st.dup = "accept")]
    ELSE IF st.budget[s] # 0
    THEN [st EXCEPT !.budget[s] = IF @ > 0 THEN @ - 1 ELSE @, !.ok = FALSE]
    ELSE [st EXCEPT !.subs = @ \cup {s}, !.ok = TRUE]

\* _start_notify_generic: `for attempt in range(retries)`
RECURSIVE start_notify_loop(_, _, _)
start_notify_loop(s, st, attempt) ==
    IF attempt >= retries THEN [st EXCEPT !.ok = FALSE]
    ELSE LET r == TransportSubscribe(s, st)
         IN  IF r.ok THEN r ELSE start_notify_loop(s, r, attempt + 1)

_start_notify_generic(s, st) ==
    IF ~is_connected THEN [st EXCEPT !.ok = FALSE]
    ELSE start_notify_loop(s, st, 0)

\* ProfilePresenter.start_notifications -> start_profile_notifications: both
\* battery streams, results ignored
profile_start_notifications(st) ==
    LET a == _start_notify_generic("battery", st)
        b == _start_notify_generic("charging", a)
    IN  [b EXCEPT !.ok = TRUE]

\* OverallStatusPresenter.start_notifications: its own retry loop
RECURSIVE overall_status_loop(_, _)
overall_status_loop(st, attempt) ==
    IF attempt >= status_max_retries THEN [st EXCEPT !.ok = FALSE]
    ELSE LET r == _start_notify_generic("overall", st)
         IN  IF r.ok THEN r ELSE overall_status_loop(r, attempt + 1)

\* IMUPresenter.start_notifications: the presenter's IMU stream
imu_start_notifications(sv, st) == _start_notify_generic(sv, st)

\* SensorPresenter.start_notifications: flex, then force, success iff both
sensor_start_notifications(st) ==
    LET a == _start_notify_generic("flex", st)
        b == _start_notify_generic("force", a)
    IN  [b EXCEPT !.ok = a.ok /\ b.ok]

\* GamepadPresenter.start_notifications: joystick, then buttons
gamepad_start_notifications(st) ==
    LET a == _start_notify_generic("joystick", st)
        b == _start_notify_generic("buttons", a)
    IN  [b EXCEPT !.ok = a.ok /\ b.ok]

\* LogPresenter.start_notifications: no stream, only the connection test
log_start_notifications(st) == [st EXCEPT !.ok = is_connected]

start_notifications(sv, st) ==
    CASE sv = "profile" -> profile_start_notifications(st)
      [] sv = "overall_status" -> overall_status_loop(st, 0)
      [] sv \in {"imu1", "imu2"} -> imu_start_notifications(sv, st)
      [] sv = "sensor" -> sensor_start_notifications(st)
      [] sv = "gamepad" -> gamepad_start_notifications(st)
      [] sv = "log" -> log_start_notifications(st)

\* The attempts that the concurrent _start_service_with_retry loops make in
\* one pass: every service still pending calls start_notifications once; on
\* the last attempt a service that fails again is a failure
RECURSIVE start_pass(_, _, _, _, _)
start_pass(i, st, pending, failed, attempt) ==
    IF i > Len(services) THEN [st |-> st, pending |-> pending, failed |-> failed]
    ELSE IF services[i] \notin pending
    THEN start_pass(i + 1, st, pending, failed, attempt)
    ELSE LET r == start_notifications(services[i], st)
         IN  IF r.ok
             THEN start_pass(i + 1, r, pending \ {services[i]}, failed, attempt)
             ELSE IF attempt >= service_max_retries - 1
             THEN start_pass(i + 1, r, pending \ {services[i]},
                             failed \cup {services[i]}, attempt)
             ELSE start_pass(i + 1, r, pending, failed, attempt)

\* BLEService.disconnect(): the transport connection is closed and the
\* session's client and device are forgotten; notifying ends with the link
DisconnectTransport ==
    /\ client' = "none"
    /\ connected_device' = FALSE
    /\ subs' = {}

\* ESP32BLEService.connect(profile): a prior session is disconnected, the
\* transport connect is tried up to 5 times (trOk: one of them succeeded),
\* check_services runs on what the transport reports (polls), a failed
\* verification disconnects again
connect_result(trOk, polls) == trOk /\ check_services(TRUE, polls).ok

Connect(trOk, polls) ==
    /\ client' = IF connect_result(trOk, polls) THEN "open"
                 ELSE IF trOk \/ is_connected THEN "none" ELSE client
    /\ connected_device' = IF connect_result(trOk, polls) THEN TRUE
                           ELSE IF trOk \/ is_connected THEN FALSE
                           ELSE connected_device
    /\ subs' = {}

ConnectScripts ==
    {[i \in 1..max_retries |-> PollList(RequiredServices)],
     [i \in 1..max_retries |-> PollList({"required_1"})],
     [i \in 1..max_retries |-> PollList({})],
     [i \in 1..max_retries |-> PollLost]}

\* `if not name` on what read_device_name returned: None after an exception
\* ("none") and empty bytes ("empty") are falsy
NotName_onlyNone(n) == n = "none"

NotName(n) == n \in {"none", "empty"}

\* the heartbeat task is suspended inside _check_connection
HbRunning == {"loop", "sleep", "lost_wait", "starting", "retry_wait"}

\* view.stop_heartbeat() from another task: the task is cancelled where it
\* is suspended and its locals are gone, the handle is dropped
HbCancel ==
    /\ _heartbeat_task' = FALSE
    /\ hbpc' = IF _heartbeat_task THEN "none" ELSE hbpc
    /\ hbattempt' = IF _heartbeat_task THEN 0 ELSE hbattempt
    /\ hbname' = IF _heartbeat_task THEN "unset" ELSE hbname

SsReset ==
    /\ sspc' = "idle"
    /\ sscaller' = "none"
    /\ ssattempt' = 0
    /\ sspending' = {}
    /\ ssfailed' = {}
    /\ ssresult' = FALSE
    /\ resub' = {}

\* the cancellation reaches start_services when the heartbeat task is
\* suspended inside it: CancelledError passes `except Exception`
SsAbortIfHeartbeat ==
    IF _heartbeat_task /\ hbpc = "starting" THEN SsReset ELSE UNCHANGED ssVars

\* a caller enters DeviceManager.start_services
SsEnter(caller) ==
    /\ sspc' = "passes"
    /\ sscaller' = caller
    /\ ssattempt' = 0
    /\ sspending' = ServiceNames
    /\ ssfailed' = {}
    /\ ssresult' = FALSE
    /\ resub' = {}

\* DeviceManager.cleanup, first half: every presenter's stop_notifications.
\* failing: the streams whose client.stop_notify raises an error other than
\* "61"; _stop_notify_generic then returns False.
\* SensorPresenter.stop_notifications also stops its logger
CleanupStops(failing) ==
    /\ subs' = IF is_connected THEN failing ELSE subs
    /\ sensor_logging' = FALSE
    /\ log_button' = FALSE
    /\ UNCHANGED imu_logging

\* DeviceManager.cleanup, second half, after the 0.2 s pause: the views are
\* cleared; LogView.clear_values stops all logging if the IMU1 logger logs
CleanupClear ==
    /\ log_button' = FALSE
    /\ IF imu_logging
       THEN imu_logging' = FALSE /\ sensor_logging' = FALSE
       ELSE UNCHANGED <<imu_logging, sensor_logging>>

\* the streams on which a stop may fail in a run (every stream is stopped by
\* the same code; one of a pair and one critical stream stand for them)
StopFaultStreams == {"imu2", "flex"}

StopFaults == {F \in SUBSET (subs \cap StopFaultStreams) : Cardinality(F) <= MaxFaulty}

\* what the reconnect loop does after a failed attempt: wait for the next
\* one, or fall into the for-else after the last
AfterFailedAttempt_short(n) == IF n < MAX_RECONNECT_ATTEMPTS - 1 THEN "retry_wait" ELSE "exhausted"

AfterFailedAttempt(n) == IF n < MAX_RECONNECT_ATTEMPTS THEN "retry_wait" ELSE "exhausted"

Running == app = "running"

\* the window takes the user's clicks until it is closed
UserPresent == Running /\ dmkind # "exit"

\* the decoder, the service verification run and the logging channel take
\* no part in the session
ConnFrame == UNCHANGED <<parseVars, verifyVars, logVars, callVars, notifyVars, auxVars>>

\* connection_presenter.connect_to_device from the connection dialog
UserConnect ==
    /\ UserPresent
    /\ ~view_is_connected
    /\ upc = "idle"
    /\ dmpc = "none"
    /\ \E trOk \in BOOLEAN, polls \in ConnectScripts :
         /\ Connect(trOk, polls)
         /\ status' = IF connect_result(trOk, polls) THEN "Connected" ELSE "Connecting..."
         /\ upc' = IF connect_result(trOk, polls) THEN "dialog" ELSE "idle"
    /\ UNCHANGED <<fail_budget, resub, view_is_connected,
                   app, hbVars, ssVars, dmVars, log_button, imu_logging, sensor_logging>>
    /\ ConnFrame

\* _on_ok_clicked -> _start_delayed_services up to its await of start_services
OkClicked ==
    /\ UserPresent
    /\ upc = "dialog"
    /\ sspc = "idle"
    /\ upc' = "starting"
    /\ status' = "Starting services..."
    /\ view_is_connected' = TRUE
    /\ SsEnter("ok")
    /\ UNCHANGED <<client, connected_device, subs, fail_budget,
                   app, hbVars, dmVars, log_button, imu_logging, sensor_logging>>
    /\ ConnFrame

\* start_services: one pass of attempts of the gathered retry loops
SsPass ==
    /\ Running
    /\ sspc = "passes"
    /\ \E dup \in DupPolicies :
       LET r == start_pass(1, [subs |-> subs, budget |-> fail_budget, dup |-> dup,
                               resub |-> {}, ok |-> TRUE],
                           sspending, ssfailed, ssattempt)
       IN  /\ subs' = r.st.subs
           /\ fail_budget' = r.st.budget
           /\ resub' = r.st.resub
           /\ sspending' = r.pending
           /\ ssfailed' = r.failed
           /\ sspc' = IF r.pending = {} THEN "sync" ELSE "passes"
    /\ ssattempt' = ssattempt + 1
    /\ log_button' = IF "log" \in sspending /\ is_connected THEN TRUE ELSE log_button
    /\ UNCHANGED <<client, connected_device, status, view_is_connected,
                   app, upc, hbVars, sscaller, ssresult, dmVars, imu_logging,
                   sensor_logging>>
    /\ ConnFrame

\* start_services after the gather: timestamp read and write (ts: how they
\* end), then the critical-service decision
SsSync ==
    /\ Running
    /\ sspc = "sync"
    /\ \E ts \in {"ok", "fail", "raise"} :
         /\ ts = "raise" => is_connected
         /\ IF ts = "raise" \/ critical_services \cap ssfailed # {}
            THEN sspc' = "cleanup" /\ ssresult' = FALSE
            ELSE sspc' = "ret" /\ ssresult' = TRUE
    /\ UNCHANGED <<client, connected_device, subs, fail_budget,
                   resub, status, view_is_connected, app, upc,
                   hbVars, sscaller, ssattempt, sspending, ssfailed, dmVars,
                   log_button, imu_logging, sensor_logging>>
    /\ ConnFrame

\* start_services -> cleanup(): the gathered stop_notifications
SsCleanupStops ==
    /\ Running
    /\ sspc = "cleanup"
    /\ \E failing \in StopFaults : CleanupStops(failing)
    /\ sspc' = "clear"
    /\ UNCHANGED <<client, connected_device, fail_budget, resub,
                   status, view_is_connected, app, upc, hbVars, sscaller,
                   ssattempt, sspending, ssfailed, ssresult, dmVars>>
    /\ ConnFrame

\* start_services -> cleanup(): the views are cleared, then `return False`
SsCleanupClear ==
    /\ Running
    /\ sspc = "clear"
    /\ CleanupClear
    /\ sspc' = "ret"
    /\ UNCHANGED <<client, connected_device, subs, fail_budget,
                   resub, status, view_is_connected, app, upc,
                   hbVars, sscaller, ssattempt, sspending, ssfailed, ssresult,
                   dmVars>>
    /\ ConnFrame

\* _start_delayed_services after start_device_services returned: on failure
\* status "Failed" and self.disconnect(), else view.start_heartbeat()
OkReturn ==
    /\ Running
    /\ sspc = "ret"
    /\ sscaller = "ok"
    /\ upc' = "idle"
    /\ SsReset
    /\ IF ssresult
       THEN /\ _heartbeat_task' = TRUE
            /\ hbpc' = "loop"
            /\ hbattempt' = 0
            /\ hbname' = "unset"
            /\ UNCHANGED <<client, connected_device, subs, status>>
       ELSE /\ HbCancel
            /\ DisconnectTransport
            /\ status' = IF connected_device THEN "Disconnected" ELSE "Failed"
    /\ UNCHANGED <<fail_budget, view_is_connected,
                   app, dmVars, log_button, imu_logging, sensor_logging>>
    /\ ConnFrame

\* _check_connection: `while self.service.is_connected()`, then sleep(3)
HbTest ==
    /\ Running
    /\ hbpc = "loop"
    /\ hbpc' = IF is_connected THEN "sleep" ELSE "ended"
    /\ hbname' = "unset"
    /\ UNCHANGED <<client, connected_device, subs, fail_budget,
                   resub, status, view_is_connected, app, upc,
                   _heartbeat_task, hbattempt, ssVars, dmVars,
                   log_button, imu_logging, sensor_logging>>
    /\ ConnFrame

\* status text self.disconnect() leaves when the heartbeat task calls it:
\* stop_heartbeat() has cancelled the calling task, so the await of an
\* existing client's disconnect ends it before "Disconnected" is set
SelfDisconnectStatus(dev, cl, st) ==
    IF dev THEN (IF cl = "none" THEN "Disconnected" ELSE "Disconnecting...") ELSE st

\* _check_connection: read_device_name returns (name), `if not name`, and on
\* a lost connection everything up to the wait before the first attempt
HbRead ==
    /\ Running
    /\ hbpc = "sleep"
    /\ \E name \in {"data", "empty", "none"} :
         /\ name # "none" => is_connected
         /\ hbname' = name
         /\ IF ~NotName(name)
            THEN /\ hbpc' = "loop"
                 /\ UNCHANGED <<client, connected_device, subs, status,
                                _heartbeat_task, hbattempt>>
            ELSE IF ~connected_device
            THEN /\ hbpc' = "ended"
                 /\ _heartbeat_task' = FALSE
                 /\ DisconnectTransport
                 /\ UNCHANGED <<status, hbattempt>>
            ELSE /\ hbpc' = "lost_wait"
                 /\ status' = "Connection Lost"
                 /\ hbattempt' = 0
                 /\ DisconnectTransport
                 /\ UNCHANGED _heartbeat_task
    /\ UNCHANGED <<fail_budget, resub, view_is_connected,
                   app, upc, ssVars, dmVars, log_button, imu_logging, sensor_logging>>
    /\ ConnFrame

\* _check_connection: one pass of `for attempt in range(5)` up to the await
\* of start_services, or through a failed connect
HbAttempt ==
    /\ Running
    /\ hbpc \in {"lost_wait", "retry_wait"}
    /\ sspc = "idle"
    /\ hbattempt' = hbattempt + 1
    /\ hbname' = "unset"
    /\ \E trOk \in BOOLEAN, polls \in ConnectScripts :
         LET devAfter == IF trOk \/ is_connected THEN FALSE ELSE connected_device
             clAfter == IF trOk \/ is_connected THEN "none" ELSE client
         IN  IF connect_result(trOk, polls)
             THEN /\ Connect(trOk, polls)
                  /\ hbpc' = "starting"
                  /\ status' = "Reconnecting"
                  /\ SsEnter("hb")
                  /\ UNCHANGED _heartbeat_task
             ELSE IF AfterFailedAttempt(hbattempt + 1) = "retry_wait"
             THEN /\ Connect(trOk, polls)
                  /\ hbpc' = "retry_wait"
                  /\ status' = "Reconnecting"
                  /\ UNCHANGED <<_heartbeat_task, ssVars>>
             ELSE /\ DisconnectTransport
                  /\ hbpc' = "exhausted"
                  /\ _heartbeat_task' = FALSE
                  /\ status' = SelfDisconnectStatus(devAfter, clAfter, "Reconnecting")
                  /\ UNCHANGED ssVars
    /\ UNCHANGED <<fail_budget, view_is_connected, app,
                   upc, dmVars, log_button, imu_logging, sensor_logging>>
    /\ ConnFrame

\* _check_connection: start_services returned inside the reconnect loop
HbStartReturn ==
    /\ Running
    /\ hbpc = "starting"
    /\ sspc = "ret"
    /\ sscaller = "hb"
    /\ SsReset
    /\ IF ssresult
       THEN /\ hbpc' = "loop"
            /\ UNCHANGED <<client, connected_device, subs, status, _heartbeat_task>>
       ELSE IF AfterFailedAttempt(hbattempt) = "retry_wait"
       THEN /\ hbpc' = "retry_wait"
            /\ UNCHANGED <<client, connected_device, subs, status, _heartbeat_task>>
       ELSE /\ hbpc' = "exhausted"
            /\ _heartbeat_task' = FALSE
            /\ DisconnectTransport
            /\ status' = SelfDisconnectStatus(connected_device, client, status)
    /\ UNCHANGED <<fail_budget, view_is_connected,
                   app, upc, hbattempt, hbname, dmVars, log_button, imu_logging,
                   sensor_logging>>
    /\ ConnFrame

\* DeviceMonitorView._disconnect_device and _disconnect_async up to the task
\* that runs DeviceManager.disconnect
UserDisconnect ==
    /\ UserPresent
    /\ view_is_connected
    /\ dmpc = "none"
    /\ view_is_connected' = FALSE
    /\ HbCancel
    /\ SsAbortIfHeartbeat
    /\ dmpc' = "stops"
    /\ dmkind' = "user"
    /\ UNCHANGED <<client, connected_device, subs, fail_budget,
                   status, app, upc, log_button, imu_logging,
                   sensor_logging>>
    /\ ConnFrame

\* App._on_closing -> handle_exit: disconnect first if connected, else quit
AppExit ==
    /\ UserPresent
    /\ dmpc = "none"
    /\ IF is_connected
       THEN dmpc' = "stops" /\ dmkind' = "exit" /\ UNCHANGED app
       ELSE app' = "exited" /\ UNCHANGED dmVars
    /\ UNCHANGED <<client, connected_device, subs, fail_budget,
                   resub, status, view_is_connected, upc, hbVars,
                   ssVars, log_button, imu_logging, sensor_logging>>
    /\ ConnFrame

\* DeviceManager.disconnect -> cleanup(): the gathered stop_notifications
DmStops ==
    /\ Running
    /\ dmpc = "stops"
    /\ \E failing \in StopFaults : CleanupStops(failing)
    /\ dmpc' = "clear"
    /\ UNCHANGED <<client, connected_device, fail_budget, resub,
                   status, view_is_connected, app, upc, hbVars, ssVars, dmkind>>
    /\ ConnFrame

\* DeviceManager.disconnect -> cleanup(): the views are cleared
DmClear ==
    /\ Running
    /\ dmpc = "clear"
    /\ CleanupClear
    /\ dmpc' = "disc"
    /\ UNCHANGED <<client, connected_device, subs, fail_budget,
                   resub, status, view_is_connected, app, upc,
                   hbVars, ssVars, dmkind>>
    /\ ConnFrame

\* DeviceManager.disconnect -> ConnectionPresenter.disconnect(); handle_exit
\* then stops the loop
DmDisconnect ==
    /\ Running
    /\ dmpc = "disc"
    /\ HbCancel
    /\ SsAbortIfHeartbeat
    /\ DisconnectTransport
    /\ status' = IF connected_device THEN "Disconnected" ELSE status
    /\ dmpc' = "none"
    /\ dmkind' = "none"
    /\ app' = IF dmkind = "exit" THEN "exited" ELSE app
    /\ UNCHANGED <<fail_budget, view_is_connected,
                   upc, log_button, imu_logging, sensor_logging>>
    /\ ConnFrame

\* LogView._on_log, the log button's command: stop all logging if the IMU1
\* logger logs, else LogPresenter.start_all_logging (refused when not connected)
_on_log ==
    /\ UserPresent
    /\ log_button
    /\ imu_logging \/ is_connected
    /\ imu_logging' = ~imu_logging
    /\ sensor_logging' = ~imu_logging
    /\ UNCHANGED <<client, connected_device, subs, fail_budget, resub, status,
                   view_is_connected, app, upc, hbVars, ssVars, dmVars, log_button>>
    /\ ConnFrame

\* the radio link is lost: the client stays, disconnected; nothing notifies
LinkDrop ==
    /\ Running
    /\ is_connected
    /\ client' = "dropped"
    /\ subs' = {}
    /\ UNCHANGED <<connected_device, fail_budget, resub,
                   status, view_is_connected, app, upc, hbVars, ssVars, dmVars,
                   log_button, imu_logging, sensor_logging>>
    /\ ConnFrame

\* the application as constructed, no device connected
ConnConstructed ==
    /\ client = "none"
    /\ connected_device = FALSE
    /\ subs = {}
    /\ resub = {}
    /\ status = "--"
    /\ view_is_connected = FALSE
    /\ app = "running"
    /\ upc = "idle"
    /\ _heartbeat_task = FALSE
    /\ hbpc = "none"
    /\ hbattempt = 0
    /\ hbname = "unset"
    /\ sspc = "idle"
    /\ sscaller = "none"
    /\ ssattempt = 0
    /\ sspending = {}
    /\ ssfailed = {}
    /\ ssresult = FALSE
    /\ dmpc = "none"
    /\ dmkind = "none"
    /\ log_button = FALSE
    /\ imu_logging = FALSE
    /\ sensor_logging = FALSE

ConnIdle ==
    /\ ConnConstructed
    /\ fail_budget = [s \in Streams |-> 0]

Channels == {"imu1", "imu2", "sensor"}

\* a LogManager whose loggers have not been started
ManagerIdle ==
    /\ mlog = [ch \in Channels |-> FALSE]
    /\ mlast = "none"
    /\ mfailed = {}
    /\ mres = FALSE
    /\ mdelivered = [ch \in Channels |-> 0]
    /\ mrows = [ch \in Channels |-> 0]

\* the specifications that follow one part of the program leave the others
\* as constructed
\* the services whose retry loops are followed
MaxRetryServices == 2

RetryServices == {services[i] : i \in 1..MaxRetryServices}

\* no start_services call made
RetryIdle ==
    /\ rloop = [sv \in RetryServices |->
                  [pc |-> "none", attempt |-> 0, res |-> "none", raised |-> FALSE]]
    /\ gres = [kind |-> "none"]

\* the read-modify-write updates of the configuration block: the IMU1 and
\* IMU2 dialogs' apply and the calibration dialog's command write
ConfigTasks == {"imu1", "imu2", "cmd"}

ConfigLen == 15

\* no update requested, the block as the device holds it
ConfigIdle ==
    /\ cblock = [i \in 1..ConfigLen |-> 0]
    /\ ctask = [t \in ConfigTasks |->
                  [pc |-> "none", data |-> <<>>, value |-> 0, written |-> FALSE]]

\* the process has created no DeviceProfile
ProfileIdle ==
    /\ profile_instance = [kind |-> "none"]
    /\ device_info = [kind |-> "none"]
    /\ connect_target = "none"

AuxIdle == ManagerIdle /\ RetryIdle /\ ConfigIdle /\ ProfileIdle

\* the stream's entry as __init__ leaves it, nothing received
NotifyIdle ==
    /\ ncb = "none"
    /\ nsub = FALSE
    /\ ninflight = 0
    /\ ndelivered = 0
    /\ nout = "none"
    /\ nres = FALSE

\* no connect call is being followed step by step
CallIdle ==
    /\ cpc = "idle"
    /\ cattempt = 0
    /\ cresult = FALSE
    /\ cprior = FALSE
    /\ cwhy = "none"

-----------------------------------------------------------------------------
(***************************************************************************)
(* Decoder specification: a payload and a stream identity are drawn, then  *)
(* parse_data is called on them twice.                                     *)
(***************************************************************************)
Bytes == 0..255

ByteHeads == {0, 65, 195, 255}
ByteFills == {0, 65, 169}
Bytes4 == {0, 1, 2, 3, 4, 200}

ParsePayloads ==
    {[i \in 1..n |-> IF i = 1 THEN b ELSE f] :
        n \in 0..MaxPayloadLen, b \in ByteHeads, f \in ByteFills}
    \cup {<<b>> : b \in Bytes}
    \cup {<<a, b, c, d>> : a \in Bytes4, b \in Bytes4, c \in Bytes4, d \in Bytes4}
    \cup {ModelText, ManufacturerText}

StreamIds == {"FIRMWARE_UUID", "HARDWARE_UUID", "OTHER"}

ParseInit ==
    /\ payload \in ParsePayloads
    /\ uuid \in StreamIds
    /\ ppc = "init"
    /\ dtype = "none"
    /\ res1 = NoResult
    /\ res2 = NoResult
    /\ dbg = NoResult
    /\ VerifyIdle
    /\ LogIdle
    /\ ConnIdle
    /\ CallIdle
    /\ NotifyIdle
    /\ AuxIdle

ParseFirst ==
    /\ ppc = "init"
    /\ ppc' = "once"
    /\ dtype' = identify_data_type(payload, uuid)
    /\ res1' = parse_data(payload, uuid)
    /\ dbg' = parse_imu_data(payload)
    /\ UNCHANGED <<payload, uuid, res2>>
    /\ UNCHANGED <<verifyVars, logVars, connVars, callVars, notifyVars, auxVars>>

ParseSecond ==
    /\ ppc = "once"
    /\ ppc' = "twice"
    /\ res2' = parse_data(payload, uuid)
    /\ UNCHANGED <<payload, uuid, dtype, res1, dbg>>
    /\ UNCHANGED <<verifyVars, logVars, connVars, callVars, notifyVars, auxVars>>

ParseNext == ParseFirst \/ ParseSecond

SpecParse == ParseInit /\ [][ParseNext]_vars

ResultKinds == DataTypes \cup {"raw", "invalid_config", "parse_error"}

C10_Table(data) ==
    LET n == Len(data) IN
    CASE n = 18 -> {IMU_RAW}
      [] n = 13 -> {IMU_EULER}
      [] n = 15 -> {CONFIG}
      [] n = 20 -> {FLEX_SENSOR}
      [] n = 5 -> {JOYSTICK}
      [] n = 1 -> (IF data[1] <= 100 THEN {BATTERY} ELSE {CHARGING})
      [] n \in (1..12) \ {1, 5} -> {DEVICE_INFO}
      [] OTHER -> {UNKNOWN}

\* C10 as stated: every payload is typed by the length table in which any
\* length from 1 to 12 other than 1 and 5 is Device-info.
C10_Original == ppc # "init" => dtype \in C10_Table(payload)

\* C10 amended: the same table, except that a 4-byte payload is one of
\* Overall-status, Buttons or Force sensor and never Device-info.
C10_LengthTable ==
    ppc # "init" =>
        IF Len(payload) = 4
        THEN dtype \in {OVERALL_STATUS, BUTTONS, FORCE_SENSOR}
        ELSE dtype \in C10_Table(payload)

C10_Witness ==
    /\ ppc # "init"
    /\ \/ Len(payload) = 4 /\ dtype = FORCE_SENSOR
       \/ Len(payload) = 7 /\ dtype = DEVICE_INFO



\* C11: for every 4-byte payload the record of DataParser is Force sensor when
\* some byte is > 3, Overall status when every byte is <= 3 and the largest is
\* > 1, and Buttons with one flag per byte otherwise; BLEDebugService's
\* parse_imu_data returns a record of the same class, with the same flags.
C11_FourByteClasses ==
    (ppc # "init" /\ Len(payload) = 4) =>
        LET small == \A i \in 1..4 : payload[i] <= 3
            class == IF ~small THEN FORCE_SENSOR
                     ELSE IF SetMax(Range(payload)) > 1 THEN OVERALL_STATUS
                     ELSE BUTTONS
        IN  /\ dtype = class
            /\ res1.kind = class
            /\ dbg.kind = class
            /\ class = BUTTONS =>
                 /\ res1.states = [i \in 1..4 |-> payload[i] = 1]
                 /\ dbg.states = res1.states

\* the spec's example: bytes [0,1,0,1] decoded as Buttons by both parsers
C11_Witness ==
    /\ ppc # "init"
    /\ payload = <<0, 1, 0, 1>>
    /\ res1 = [kind |-> BUTTONS, states |-> <<FALSE, TRUE, FALSE, TRUE>>]
    /\ dbg = res1

\* the ten per-IMU frequency/range bytes of a configuration block (offsets
\* 1..10 of the payload) that no row of imu_limits allows
NotAllowed(v) ==
    \A p \in DOMAIN imu_limits :
        ~(imu_limits[p].min <= v /\ v <= imu_limits[p].max)

NotAllowedBytes(data) == {i \in 1..10 : NotAllowed(data[i + 1])}

\* C25: decoding a 15-byte configuration block checks each of the ten
\* per-IMU frequency/range bytes and reports every one that is not an allowed
\* value as a warning, and returns the record.
C25_AllTenBytesValidated ==
    (ppc # "init" /\ Len(payload) = 15 /\ dtype = CONFIG)
        => /\ res1.kind = CONFIG
           /\ Cardinality(res1.warnings) >= Cardinality(NotAllowedBytes(payload))

\* C30: through parse_data every 1-byte payload typed Charging (value above
\* 100) decodes to 'Unknown State'; the labels of the charging codes 0, 1 and
\* 2 are produced for no 1-byte payload, those values being typed Battery.
C30_ChargingAlwaysUnknownState ==
    (ppc # "init" /\ Len(payload) = 1)
        => /\ dtype \in {BATTERY, CHARGING}
           /\ (dtype = CHARGING) = (payload[1] > 100)
           /\ dtype = CHARGING
                 => res1 = [kind |-> CHARGING, state |-> "Unknown State"]
           /\ dtype = BATTERY => res1.kind = BATTERY
           /\ res1.kind = CHARGING => res1.state = "Unknown State"

\* the byte 101, the first that is typed Charging, has been decoded
C30_Witness ==
    /\ ppc # "init"
    /\ payload = <<101>>
    /\ dtype = CHARGING
    /\ res1 = [kind |-> CHARGING, state |-> "Unknown State"]

-----------------------------------------------------------------------------
(***************************************************************************)
(* IMU record round trip: model/imu.py, IMUData.from_bytes and to_bytes on *)
(* payloads drawn with one int16 field at its edge values.                 *)
(***************************************************************************)
IMURawLen == 18

\* struct.pack('<h', v): the two bytes of v, or struct.error (no bytes) when
\* v is not an int16
PackInt16LE(v) ==
    IF v < -32768 \/ v > 32767 THEN <<>>
    ELSE LET u == IF v < 0 THEN v + 65536 ELSE v
         IN  <<u % 256, u \div 256>>

\* IMUData.from_bytes: None unless 18 bytes, else nine '<h' values and the
\* raw bytes
IMUData_from_bytes_unsigned(data) ==
    IF Len(data) # IMURawLen THEN NoResult
    ELSE [kind |-> "imu",
          values |-> [k \in 1..9 |-> UInt16LE(data[2 * k - 1], data[2 * k])],
          raw_data |-> data]

IMUData_from_bytes(data) ==
    IF Len(data) # IMURawLen THEN NoResult
    ELSE [kind |-> "imu",
          values |-> [k \in 1..9 |-> Int16LE(data[2 * k - 1], data[2 * k])],
          raw_data |-> data]

\* IMUData.to_bytes: struct.pack('<9h', ...) of the nine fields, None when
\* struct.pack raises
IMUData_to_bytes(rec) ==
    IF \E k \in 1..9 : PackInt16LE(rec.values[k]) = <<>> THEN NoResult
    ELSE [kind |-> "bytes",
          data |-> [i \in 1..IMURawLen |->
                      PackInt16LE(rec.values[(i + 1) \div 2])[((i - 1) % 2) + 1]]]

EdgeBytes == {0, 1, 127, 128, 255}
FillBytes == {0, 128, 255}

RoundTripPayloads ==
    {[i \in 1..IMURawLen |-> IF i = 2 * k - 1 THEN lo
                              ELSE IF i = 2 * k THEN hi ELSE f] :
        k \in 1..9, lo \in EdgeBytes, hi \in EdgeBytes, f \in FillBytes}
    \cup {[i \in 1..n |-> 255] : n \in {0, IMURawLen - 1, IMURawLen + 1}}

RoundTripInit ==
    /\ payload \in RoundTripPayloads
    /\ uuid = "OTHER"
    /\ ppc = "init"
    /\ dtype = "none"
    /\ res1 = NoResult
    /\ res2 = NoResult
    /\ dbg = NoResult
    /\ VerifyIdle
    /\ LogIdle
    /\ ConnIdle
    /\ CallIdle
    /\ NotifyIdle
    /\ AuxIdle

RoundTripDecode ==
    /\ ppc = "init"
    /\ ppc' = "once"
    /\ res1' = IMUData_from_bytes(payload)
    /\ UNCHANGED <<payload, uuid, dtype, res2, dbg>>
    /\ UNCHANGED <<verifyVars, logVars, connVars, callVars, notifyVars, auxVars>>

RoundTripEncode ==
    /\ ppc = "once"
    /\ ppc' = "twice"
    /\ res2' = IF res1 = NoResult THEN NoResult ELSE IMUData_to_bytes(res1)
    /\ UNCHANGED <<payload, uuid, dtype, res1, dbg>>
    /\ UNCHANGED <<verifyVars, logVars, connVars, callVars, notifyVars, auxVars>>

RoundTripNext ==
    \/ RoundTripDecode
    \/ RoundTripEncode

SpecRoundTrip == RoundTripInit /\ [][RoundTripNext]_vars

\* C24: for every 18-byte payload p, IMUData.from_bytes(p).to_bytes() is p.
C24_IMURawRoundTrip ==
    (ppc = "twice" /\ Len(payload) = IMURawLen)
        => res2 = [kind |-> "bytes", data |-> payload]

\* a payload whose first field is -1 (bytes FF FF) has gone round
C24_Witness ==
    /\ ppc = "twice"
    /\ Len(payload) = IMURawLen
    /\ payload[1] = 255
    /\ payload[2] = 255
    /\ res1.values[1] = -1
    /\ res2 = [kind |-> "bytes", data |-> payload]

-----------------------------------------------------------------------------
(***************************************************************************)
(* Verification specification: the transport's answers to the five polls   *)
(* are drawn, then check_services runs on them.                            *)
(***************************************************************************)
ReportedLists ==
    {{}, {"required_1"}, {"required_1", "other"}, {"required_1", "required_2"},
     {"required_1", "required_2", "other"}}

PollOutcomes == {PollLost, PollError} \cup {PollList(S) : S \in ReportedLists}

ParseIdle ==
    /\ payload = <<>>
    /\ uuid = "OTHER"
    /\ ppc = "idle"
    /\ dtype = "none"
    /\ res1 = NoResult
    /\ res2 = NoResult
    /\ dbg = NoResult

VerifyInit ==
    /\ vconnected \in BOOLEAN
    /\ vpolls \in [1..max_retries -> PollOutcomes]
    /\ vpc = "init"
    /\ vresult = [ok |-> FALSE, polls |-> 0]
    /\ ParseIdle
    /\ LogIdle
    /\ ConnIdle
    /\ CallIdle
    /\ NotifyIdle
    /\ AuxIdle

VerifyRun ==
    /\ vpc = "init"
    /\ vpc' = "done"
    /\ vresult' = check_services(vconnected, vpolls)
    /\ UNCHANGED <<vconnected, vpolls>>
    /\ UNCHANGED <<parseVars, logVars, connVars, callVars, notifyVars, auxVars>>

VerifyNext == VerifyRun

SpecVerify == VerifyInit /\ [][VerifyNext]_vars

-----------------------------------------------------------------------------
(***************************************************************************)
(* Connection establishment specification: one call of                     *)
(* ESP32BLEService.connect followed statement by statement, from a service *)
(* with no client, a live session or a client whose link is down.          *)
(***************************************************************************)
max_connect_retries == 5

AttemptOutcomes == {"ok", "false", "raise"}

PriorSubs == {{}, {"imu1"}, {"imu1", "flex"}}

\* what the transport answers to check_services' polls: empty lists up to
\* poll k, one outcome from then on
CallScripts ==
    {[i \in 1..max_retries |-> IF i < k THEN PollList({}) ELSE o] :
        k \in 1..max_retries, o \in PollOutcomes}

callRest == <<fail_budget, status, view_is_connected, app, upc, hbVars,
              ssVars, dmVars, log_button, imu_logging, sensor_logging>>

CallFrame == UNCHANGED <<parseVars, verifyVars, logVars, callRest, notifyVars, auxVars>>

\* "if self.is_connected(): await self.disconnect()"
connect_entry_keep ==
    /\ cpc = "entry"
    /\ UNCHANGED <<client, connected_device, subs>>
    /\ cpc' = "attempts"
    /\ UNCHANGED <<cattempt, cresult, cprior, cwhy>>
    /\ CallFrame

connect_entry ==
    /\ cpc = "entry"
    /\ IF is_connected THEN DisconnectTransport
       ELSE UNCHANGED <<client, connected_device, subs>>
    /\ cpc' = "attempts"
    /\ UNCHANGED <<cattempt, cresult, cprior, cwhy>>
    /\ CallFrame

\* one pass of "for attempt in range(max_connect_retries)": the transport
\* connect succeeds, returns False or raises
connect_attempt ==
    /\ cpc = "attempts"
    /\ \E out \in AttemptOutcomes :
         /\ cattempt' = cattempt + 1
         /\ IF out = "ok"
            THEN /\ client' = "open"
                 /\ connected_device' = TRUE
                 /\ cpc' = "verify"
                 /\ UNCHANGED <<cresult, cwhy>>
            ELSE /\ UNCHANGED <<client, connected_device>>
                 /\ IF cattempt + 1 < max_connect_retries
                    THEN /\ cpc' = "attempts"
                         /\ UNCHANGED <<cresult, cwhy>>
                    ELSE /\ cpc' = "ret"
                         /\ cresult' = FALSE
                         /\ cwhy' = "transport"
    /\ UNCHANGED <<subs, cprior>>
    /\ CallFrame

\* "has_services = await self.check_services()" and what follows it
connect_verify_keep ==
    /\ cpc = "verify"
    /\ \E polls \in CallScripts :
         /\ vconnected' = is_connected
         /\ vpolls' = polls
         /\ vpc' = "done"
         /\ vresult' = check_services(is_connected, polls)
         /\ IF check_services(is_connected, polls).ok
            THEN /\ cresult' = TRUE
                 /\ cwhy' = "ok"
                 /\ UNCHANGED <<client, connected_device, subs>>
            ELSE /\ cresult' = FALSE
                 /\ cwhy' = "services"
                 /\ UNCHANGED <<client, connected_device, subs>>
    /\ cpc' = "ret"
    /\ UNCHANGED <<cattempt, cprior>>
    /\ UNCHANGED <<parseVars, logVars, callRest, notifyVars, auxVars>>

connect_verify ==
    /\ cpc = "verify"
    /\ \E polls \in CallScripts :
         /\ vconnected' = is_connected
         /\ vpolls' = polls
         /\ vpc' = "done"
         /\ vresult' = check_services(is_connected, polls)
         /\ IF check_services(is_connected, polls).ok
            THEN /\ cresult' = TRUE
                 /\ cwhy' = "ok"
                 /\ UNCHANGED <<client, connected_device, subs>>
            ELSE /\ cresult' = FALSE
                 /\ cwhy' = "services"
                 /\ DisconnectTransport
    /\ cpc' = "ret"
    /\ UNCHANGED <<cattempt, cprior>>
    /\ UNCHANGED <<parseVars, logVars, callRest, notifyVars, auxVars>>

CallInit ==
    /\ client \in {"none", "open", "dropped"}
    /\ connected_device = (client # "none")
    /\ subs \in (IF client = "open" THEN PriorSubs ELSE {{}})
    /\ cpc = "entry"
    /\ cattempt = 0
    /\ cresult = FALSE
    /\ cprior = is_connected
    /\ cwhy = "none"
    /\ fail_budget = [s \in Streams |-> 0]
    /\ resub = {}
    /\ status = "--"
    /\ view_is_connected = FALSE
    /\ app = "running"
    /\ upc = "idle"
    /\ _heartbeat_task = FALSE
    /\ hbpc = "none"
    /\ hbattempt = 0
    /\ hbname = "unset"
    /\ sspc = "idle"
    /\ sscaller = "none"
    /\ ssattempt = 0
    /\ sspending = {}
    /\ ssfailed = {}
    /\ ssresult = FALSE
    /\ dmpc = "none"
    /\ dmkind = "none"
    /\ log_button = FALSE
    /\ imu_logging = FALSE
    /\ sensor_logging = FALSE
    /\ ParseIdle
    /\ VerifyIdle
    /\ LogIdle
    /\ NotifyIdle
    /\ AuxIdle

CallNext ==
    \/ connect_entry
    \/ connect_attempt
    \/ connect_verify

SpecConnect == CallInit /\ [][CallNext]_vars

\* C13: connect called while a connection is live first disconnects that
\* session, and only then makes the first transport connect attempt: when the
\* first attempt is made no session is live, and the prior session's
\* subscriptions are gone with it.  One client attribute holds the session, so
\* at most one is live.
C13_PriorSessionClosedFirst ==
    (cpc = "attempts" /\ cattempt = 0) =>
        /\ ~is_connected
        /\ cprior => (client = "none" /\ ~connected_device /\ subs = {})

C13_Witness ==
    /\ cprior
    /\ cpc = "verify"
    /\ cattempt = 1
    /\ client = "open"
    /\ subs = {}

\* C14: whenever connect returns failure no transport connection is left open,
\* and a verification failure after a successful transport connect returns
\* failure with the transport disconnected.
C14_FailureLeavesNoTransport ==
    (cpc = "ret" /\ ~cresult) =>
        /\ ~is_connected
        /\ cwhy = "services" => (client = "none" /\ ~connected_device)

C14_Witness ==
    /\ cpc = "ret"
    /\ ~cresult
    /\ cwhy = "services"
    /\ cattempt = 3
    /\ client = "none"

-----------------------------------------------------------------------------
(***************************************************************************)
(* Notification specification: one stream of ESP32BLEService, its start    *)
(* and stop, the notifications the transport hands over and the handler    *)
(* runs that give them to the stream's listener.                           *)
(***************************************************************************)
MaxInflight == 2
MaxDelivered == 2

\* how client.stop_notify ends: done, error "61" (already stopped), any
\* other error
StopOutcomes == {"ok", "err61", "err"}

notifyRest == <<connected_device, subs, callRest>>

NotifyFrame == UNCHANGED <<parseVars, verifyVars, logVars, callVars, notifyRest, auxVars>>

\* _stop_notify_generic(uuid) on a service whose client is cl, with the
\* callback entry cb and the transport's subscription sub, when
\* client.stop_notify ends as out
_stop_notify_generic_keep(cl, cb, sub, out) ==
    IF cl = "none" THEN [result |-> TRUE, cb |-> "none", sub |-> sub, out |-> "noclient"]
    ELSE IF out = "ok" THEN [result |-> TRUE, cb |-> "none", sub |-> FALSE, out |-> out]
    ELSE IF out = "err61" THEN [result |-> TRUE, cb |-> cb, sub |-> sub, out |-> out]
    ELSE [result |-> FALSE, cb |-> cb, sub |-> sub, out |-> out]

_stop_notify_generic(cl, cb, sub, out) ==
    IF cl = "none" THEN [result |-> TRUE, cb |-> "none", sub |-> sub, out |-> "noclient"]
    ELSE IF out = "ok" THEN [result |-> TRUE, cb |-> "none", sub |-> FALSE, out |-> out]
    ELSE IF out = "err61" THEN [result |-> TRUE, cb |-> "none", sub |-> sub, out |-> out]
    ELSE [result |-> FALSE, cb |-> cb, sub |-> sub, out |-> out]

\* the stream counts as stopped: the last call on it was a stop that
\* returned success
Stopped == nout \in {"ok", "err61", "noclient"} /\ nres

\* a start_*_notify call: _start_notify_generic with its retries; the
\* callback entry is written before each client.start_notify
StartNotify ==
    /\ \E ok \in BOOLEAN :
         IF ~is_connected
         THEN /\ nres' = FALSE
              /\ nout' = "notconnected"
              /\ UNCHANGED <<ncb, nsub>>
         ELSE /\ ncb' = "cb"
              /\ nsub' = (nsub \/ ok)
              /\ nres' = ok
              /\ nout' = IF ok THEN "started" ELSE "startfailed"
    /\ UNCHANGED <<client, ninflight, ndelivered>>
    /\ NotifyFrame

\* a stop_*_notify call
StopNotify ==
    /\ \E out \in StopOutcomes :
         /\ out = "ok" => (is_connected /\ nsub)
         /\ out = "err61" => (is_connected /\ ~nsub)
         /\ LET r == _stop_notify_generic(client, ncb, nsub, out)
            IN  /\ nres' = r.result
                /\ ncb' = r.cb
                /\ nsub' = r.sub
                /\ nout' = r.out
    /\ UNCHANGED <<client, ninflight, ndelivered>>
    /\ NotifyFrame

\* the transport receives a notification of the stream and schedules the
\* handler registered with client.start_notify
Notify ==
    /\ is_connected
    /\ nsub
    /\ ninflight < MaxInflight
    /\ ninflight' = ninflight + 1
    /\ UNCHANGED <<client, ncb, nsub, ndelivered, nout, nres>>
    /\ NotifyFrame

\* a scheduled handler runs: _generic_notification_handler decodes the
\* payload and calls the callback the handler was created with
Handle ==
    /\ ninflight > 0
    /\ ndelivered < MaxDelivered
    /\ ninflight' = ninflight - 1
    /\ ndelivered' = ndelivered + 1
    /\ UNCHANGED <<client, ncb, nsub, nout, nres>>
    /\ NotifyFrame

\* the link goes down, or the session is disconnected and the client dropped
NotifyLinkEnds ==
    /\ client # "none"
    /\ \E c \in {"dropped", "none"} :
         /\ c = "dropped" => client = "open"
         /\ client' = c
    /\ nsub' = FALSE
    /\ UNCHANGED <<ncb, ninflight, ndelivered, nout, nres>>
    /\ NotifyFrame

\* a new session on the service
NotifyConnect ==
    /\ client # "open"
    /\ client' = "open"
    /\ UNCHANGED notifyVars
    /\ NotifyFrame

NotifyInit ==
    /\ client \in {"none", "open"}
    /\ connected_device = (client # "none")
    /\ subs = {}
    /\ NotifyIdle
    /\ AuxIdle
    /\ CallIdle
    /\ fail_budget = [s \in Streams |-> 0]
    /\ resub = {}
    /\ status = "--"
    /\ view_is_connected = FALSE
    /\ app = "running"
    /\ upc = "idle"
    /\ _heartbeat_task = FALSE
    /\ hbpc = "none"
    /\ hbattempt = 0
    /\ hbname = "unset"
    /\ sspc = "idle"
    /\ sscaller = "none"
    /\ ssattempt = 0
    /\ sspending = {}
    /\ ssfailed = {}
    /\ ssresult = FALSE
    /\ dmpc = "none"
    /\ dmkind = "none"
    /\ log_button = FALSE
    /\ imu_logging = FALSE
    /\ sensor_logging = FALSE
    /\ ParseIdle
    /\ VerifyIdle
    /\ LogIdle

NotifyNext ==
    \/ StartNotify
    \/ StopNotify
    \/ Notify
    \/ Handle
    \/ NotifyLinkEnds
    \/ NotifyConnect

SpecNotify == NotifyInit /\ [][NotifyNext]_vars

\* C19: a stop that meets the transport error "already stopped" returns
\* success like one that went through, only another error makes it return
\* failure, and whenever a stop has returned success the stream's callback
\* entry is None.
C19_StopSuccessClearsCallback ==
    /\ nout \in {"ok", "err61", "noclient"} => (nres /\ ncb = "none")
    /\ nout = "err" => ~nres

C19_Witness ==
    /\ nout = "err61"
    /\ nres
    /\ ncb = "none"
    /\ client = "open"
    /\ ndelivered > 0

\* C20: once a stream has been stopped no further record of it is given to
\* its listener, notifications in flight when the stop was issued included.
C20_NoDeliveryAfterStop ==
    [][Stopped => ndelivered' = ndelivered]_vars

\* C5: check_services polls at most 5 times and returns success only if on
\* some poll it made every required service was in the reported list; with
\* services missing, or no list ever reported, it returns failure.
C5_VerifyOnlyWhenAllPresent ==
    vpc = "done" =>
        /\ vresult.polls <= 5
        /\ vresult.ok =>
              \E k \in 1..vresult.polls :
                  /\ vpolls[k].kind = "list"
                  /\ RequiredServices \subseteq vpolls[k].services

-----------------------------------------------------------------------------
(***************************************************************************)
(* Logging specification: one channel of one logger class, its producer,   *)
(* its consumer threads and the stop/start calls of the log view.          *)
(***************************************************************************)
LogKinds == {"imu", "sensor", "base"}

LogInit ==
    /\ lkind \in LogKinds
    /\ LogConstructed
    /\ session_cap = MaxSessions
    /\ write_cap = MaxWrites
    /\ ParseIdle
    /\ VerifyIdle
    /\ ConnIdle
    /\ CallIdle
    /\ NotifyIdle
    /\ AuxIdle

LogNext ==
    \/ WriteCsv
    \/ StartImu
    \/ StartQueued
    \/ StopLogging
    \/ StopJoin
    \/ StopFooter
    \/ StopClose
    \/ \E t \in ThreadIds : ConsumerCheck(t)
    \/ \E t \in ThreadIds : ConsumerGet(t)
    \/ \E t \in ThreadIds : ConsumerWrite(t)
    \/ \E t \in ThreadIds : ConsumerDrain(t)


SpecLog == LogInit /\ [][LogNext]_vars

\* ids the channel took into its queue in the current session
Accepted == (1..(nextId - 1)) \ dropped

RowsOf(file) == {file[i].n : i \in {j \in 1..Len(file) : file[j].t = "row"}}

RowCountOf(file) == Cardinality({j \in 1..Len(file) : file[j].t = "row"})

FooterAt(file) == {j \in 1..Len(file) : file[j].t = "footer"}

\* C7: write_csv is non-blocking and bounded: the queue never holds more than
\* 1000 records; a write to a full queue drops exactly that record and leaves
\* the queued records as they were; and whatever the consumer is doing, the
\* producer's write can complete.
C7_WriteBoundedNonBlocking ==
    /\ [](Len(lqueue) <= QueueMaxsize)
    /\ []((spc = "idle" /\ session >= 1 /\ nextId <= write_cap) => ENABLED WriteCsv)
    /\ [][(nextId' = nextId + 1)
            => IF Len(lqueue) = QueueMaxsize /\ (lres \/ lkind # "imu")
               THEN lqueue' = lqueue /\ dropped' = dropped \cup {nextId}
               ELSE dropped' = dropped]_vars

C7_Witness ==
    /\ Len(lqueue) = QueueMaxsize
    /\ dropped # {}
    /\ is_logging

\* C8: stop_logging drains and finalizes: when the footer has been written,
\* every record enqueued before stop_logging is a data row of the file, the
\* footer's total equals the number of data rows, and no data row ever
\* follows the footer.
C8_StopDrainsAndFinalizes ==
    /\ (spc = "close" /\ lres /\ lopen) =>
          /\ Accepted \subseteq RowsOf(lfile)
          /\ \A j \in FooterAt(lfile) : lfile[j].n = RowCountOf(lfile)
    /\ \A j \in FooterAt(lfile) : \A k \in (j + 1)..Len(lfile) : lfile[k].t # "row"

-----------------------------------------------------------------------------
(***************************************************************************)
(* Restart specification: the same channel with few records per session    *)
(* and one more start, so that a stop can be followed by a start and a      *)
(* stop by a stop.                                                          *)
(***************************************************************************)
MaxRestartWrites == 2

RestartInit ==
    /\ lkind \in LogKinds
    /\ LogConstructed
    /\ session_cap = MaxSessions + 1
    /\ write_cap = MaxRestartWrites
    /\ ParseIdle
    /\ VerifyIdle
    /\ ConnIdle
    /\ CallIdle
    /\ NotifyIdle
    /\ AuxIdle

RestartNext ==
    \/ WriteCsv
    \/ StartImu
    \/ StartQueued
    \/ StopLogging
    \/ StopJoin
    \/ StopFooter
    \/ StopClose
    \/ \E t \in ThreadIds : ConsumerCheck(t)
    \/ \E t \in ThreadIds : ConsumerGet(t)
    \/ \E t \in ThreadIds : ConsumerWrite(t)
    \/ \E t \in ThreadIds : ConsumerDrain(t)

SpecLogRestart == RestartInit /\ [][RestartNext]_vars

\* the consumer threads of the channel that have not ended
Consumers == {t \in ThreadIds : Alive(t)}

\* the data rows of a file are in the order their records were enqueued
RowsInOrder(file) ==
    \A i \in 1..Len(file) : \A j \in (i + 1)..Len(file) :
        (file[i].t = "row" /\ file[j].t = "row") => file[i].n < file[j].n

\* C21: within one channel at most one consumer thread is alive at any time,
\* also after a stop_logging followed by a start_logging; the data rows of
\* the file are in the order their records were enqueued; and the row counter
\* never decreases while the channel is logging.
C21_SingleConsumerInOrder ==
    /\ [](Cardinality(Consumers) <= 1)
    /\ [](RowsInOrder(lfile))
    /\ [][(is_logging /\ is_logging') => row_count' >= row_count]_vars

-----------------------------------------------------------------------------
(***************************************************************************)
(* Log manager specification: LogManager.start_all_logging and             *)
(* stop_all_logging over the three channels, and the notification handlers *)
(* that give a record to the listener and then to the channel's logger.    *)
(***************************************************************************)
MaxRecords == 2

\* how a channel's start_logging ends: IMULog.start_logging returns True or
\* raises (os.makedirs); SensorLog.start_logging returns True, or False after
\* an exception it caught
StartOutcomes(ch) == IF ch = "sensor" THEN {"ok", "false"} ELSE {"ok", "raise"}

StartScripts == {o \in [Channels -> {"ok", "false", "raise"}] :
                    \A ch \in Channels : o[ch] \in StartOutcomes(ch)}

NoneLogging == [ch \in Channels |-> FALSE]

\* LogManager.start_all_logging when the channels' starts end as o
start_all_logging(o) ==
    IF o["imu1"] # "ok"
    THEN [result |-> FALSE, logging |-> NoneLogging, failed |-> {"imu1"}]
    ELSE IF o["imu2"] # "ok"
    THEN [result |-> FALSE, logging |-> NoneLogging, failed |-> {"imu2"}]
    ELSE IF o["sensor"] # "ok"
    THEN [result |-> FALSE, logging |-> NoneLogging, failed |-> {"sensor"}]
    ELSE [result |-> TRUE, logging |-> [ch \in Channels |-> TRUE], failed |-> {}]

ManagerFrame == UNCHANGED <<parseVars, verifyVars, logVars, connVars, callVars,
                            notifyVars, retryVars, cfgVars, profVars>>

StartAllLogging ==
    /\ \E o \in StartScripts :
         LET r == start_all_logging(o)
         IN  /\ mlog' = r.logging
             /\ mfailed' = r.failed
             /\ mres' = r.result
    /\ mlast' = "start"
    /\ UNCHANGED <<mdelivered, mrows>>
    /\ ManagerFrame

\* LogManager.stop_all_logging: each logger's stop_logging in turn; errors of
\* the footer and the close stay inside the logger
StopAllLogging ==
    /\ mlog' = NoneLogging
    /\ mfailed' = {}
    /\ mres' = TRUE
    /\ mlast' = "stop"
    /\ UNCHANGED <<mdelivered, mrows>>
    /\ ManagerFrame

\* a presenter's notification handler on channel ch: the view is updated,
\* then write_csv if the channel's logger is logging; the logger takes the
\* record (ioOk) or fails to and swallows the error
HandleRecord ==
    /\ \E ch \in Channels, ioOk \in BOOLEAN :
         /\ mdelivered[ch] < MaxRecords
         /\ mdelivered' = [mdelivered EXCEPT ![ch] = @ + 1]
         /\ mrows' = IF mlog[ch] /\ ioOk THEN [mrows EXCEPT ![ch] = @ + 1] ELSE mrows
    /\ UNCHANGED <<mlog, mlast, mfailed, mres>>
    /\ ManagerFrame

ManagerInit ==
    /\ ManagerIdle
    /\ RetryIdle
    /\ ConfigIdle
    /\ ProfileIdle
    /\ ParseIdle
    /\ VerifyIdle
    /\ LogIdle
    /\ ConnIdle
    /\ CallIdle
    /\ NotifyIdle

ManagerNext ==
    \/ StartAllLogging
    \/ StopAllLogging
    \/ HandleRecord

SpecManager == ManagerInit /\ [][ManagerNext]_vars

\* C23: a logging failure stays in its channel: after a start_all_logging in
\* which a channel's start failed the other channels are logging, after a
\* stop_all_logging no channel is logging, and a record is given to the
\* listener whether or not the logger could take it.
C23_FailureIsIsolated ==
    /\ mlast = "start" => \A ch \in Channels \ mfailed : mlog[ch]
    /\ mlast = "stop" => \A ch \in Channels : ~mlog[ch]
    /\ \A ch \in Channels : mrows[ch] <= mdelivered[ch]

-----------------------------------------------------------------------------
(***************************************************************************)
(* Retry specification: DeviceManager.start_services gathers one           *)
(* _start_service_with_retry call per service; the calls are followed      *)
(* attempt by attempt, each attempt's start_notifications returning True,  *)
(* returning False or raising.                                             *)
(***************************************************************************)
StartResults == {"true", "false", "raise"}

\* _start_service_with_retry after the attempt numbered `attempt` (from 0)
\* ended as o: every exception is let through to the caller
_start_service_with_retry_propagates(attempt, o) ==
    IF o = "true" THEN [pc |-> "ret", res |-> "true"]
    ELSE IF o = "raise" THEN [pc |-> "ret", res |-> "raise"]
    ELSE IF attempt < service_max_retries - 1 THEN [pc |-> "sleep", res |-> "none"]
    ELSE [pc |-> "ret", res |-> "false"]

\* _start_service_with_retry after the attempt numbered `attempt` (from 0)
\* ended as o: True returns True, False or an Exception sleeps and goes
\* round again, and after the last attempt the loop ends and False is
\* returned
_start_service_with_retry(attempt, o) ==
    IF o = "true" THEN [pc |-> "ret", res |-> "true"]
    ELSE IF attempt < service_max_retries - 1 THEN [pc |-> "sleep", res |-> "none"]
    ELSE [pc |-> "ret", res |-> "false"]

RetryFrame == UNCHANGED <<parseVars, verifyVars, logVars, connVars, callVars,
                          notifyVars, managerVars, cfgVars, profVars>>

\* start_services: asyncio.gather creates one task per service
StartServices ==
    /\ gres.kind = "none"
    /\ \A sv \in RetryServices : rloop[sv].pc = "none"
    /\ rloop' = [sv \in RetryServices |-> [rloop[sv] EXCEPT !.pc = "run"]]
    /\ gres' = [kind |-> "gathering"]
    /\ RetryFrame

\* one attempt of one service's loop
RetryAttempt(sv) ==
    /\ rloop[sv].pc = "run"
    /\ \E o \in StartResults :
         LET r == _start_service_with_retry(rloop[sv].attempt, o)
         IN  rloop' = [rloop EXCEPT ![sv] =
                          [pc |-> r.pc, attempt |-> @.attempt + 1, res |-> r.res,
                           raised |-> @.raised \/ o = "raise"]]
    /\ UNCHANGED gres
    /\ RetryFrame

\* asyncio.sleep(delay) of one service's loop is over
RetryWake(sv) ==
    /\ rloop[sv].pc = "sleep"
    /\ rloop' = [rloop EXCEPT ![sv].pc = "run"]
    /\ UNCHANGED gres
    /\ RetryFrame

\* the gather returns when every call has returned
GatherReturns ==
    /\ gres.kind = "gathering"
    /\ \A sv \in RetryServices : rloop[sv].pc = "ret"
    /\ gres' = [kind |-> "done",
                results |-> [sv \in RetryServices |-> rloop[sv].res]]
    /\ UNCHANGED rloop
    /\ RetryFrame

RetryInit ==
    /\ RetryIdle
    /\ ConfigIdle
    /\ ProfileIdle
    /\ ManagerIdle
    /\ ParseIdle
    /\ VerifyIdle
    /\ LogIdle
    /\ ConnIdle
    /\ CallIdle
    /\ NotifyIdle

RetryNext ==
    \/ StartServices
    \/ \E sv \in RetryServices : RetryAttempt(sv)
    \/ \E sv \in RetryServices : RetryWake(sv)
    \/ GatherReturns

SpecRetry == RetryInit /\ [][RetryNext]_vars

\* C26: each service's start runs in its own retry loop: at most 10
\* attempts, it stops at the first success, returns failure only after all 10
\* attempts failed, never raises to the caller, and the retries of one
\* service neither abort nor wait for the other services' starts.
C26_RetryLoopPerStream ==
    /\ [](\A sv \in RetryServices :
            /\ rloop[sv].attempt <= service_max_retries
            /\ rloop[sv].res \in {"none", "true", "false"}
            /\ (rloop[sv].res = "false" => rloop[sv].attempt = service_max_retries)
            /\ (rloop[sv].pc = "run" => ENABLED RetryAttempt(sv))
            /\ (rloop[sv].pc = "sleep" => ENABLED RetryWake(sv)))
    /\ [][\A sv \in RetryServices :
            /\ rloop[sv].pc = "ret" => rloop'[sv] = rloop[sv]
            /\ (rloop'[sv].res = "true" /\ rloop[sv].res # "true")
                  => rloop'[sv].pc = "ret"
            /\ rloop'[sv] # rloop[sv]
                  => \A ot \in RetryServices \ {sv} :
                        rloop[ot].pc = "none" \/ rloop'[ot] = rloop[ot]]_vars

\* one service returned False after ten attempts, one of which raised, while
\* another had returned True before its tenth
C26_Witness ==
    \E sv \in RetryServices, ot \in RetryServices :
        /\ rloop[sv].res = "false"
        /\ rloop[sv].attempt = service_max_retries
        /\ rloop[sv].raised
        /\ rloop[ot].res = "true"
        /\ rloop[ot].attempt < service_max_retries
        /\ gres.kind = "done"

-----------------------------------------------------------------------------
(***************************************************************************)
(* Configuration specification: the tasks that the IMU1 and IMU2           *)
(* configuration dialogs and the calibration dialog create; each reads the *)
(* block, changes its own bytes in the copy and writes the copy back.      *)
(***************************************************************************)
ConfigFields == {"accel_gyro_freq", "mag_freq", "accel_range", "gyro_range",
                 "mag_range"}

\* IMUConfigUtil.get_imu_config_positions: byte offsets (from 0) of the
\* fields of IMU 1 and IMU 2
get_imu_config_positions(imu_number) ==
    IF imu_number = 1
    THEN [accel_gyro_freq |-> 1, mag_freq |-> 2, accel_range |-> 5,
          gyro_range |-> 6, mag_range |-> 7]
    ELSE [accel_gyro_freq |-> 3, mag_freq |-> 4, accel_range |-> 8,
          gyro_range |-> 9, mag_range |-> 10]

\* IMUConfigUtil.update_config_bytes: a copy of data with the five bytes of
\* that IMU set to the codes of the dialog's selection
update_config_bytes(data, imu_number, config) ==
    LET positions == get_imu_config_positions(imu_number)
    IN  [i \in 1..Len(data) |->
            IF \E f \in ConfigFields : positions[f] = i - 1
            THEN config[CHOOSE f \in ConfigFields : positions[f] = i - 1]
            ELSE data[i]]

\* IMUCalibrationDialog._write_cmd: a copy of data with byte 0 set
write_cmd_bytes(data, cmd_value) == [data EXCEPT ![1] = cmd_value]

\* the codes a dialog's selection stands for, the same code in every field
CodeChoices == {1, 2, 3}

ApplyConfigs == {[f \in ConfigFields |-> c] : c \in CodeChoices}

\* command values written by the calibration dialog: RUN, calibrate IMU1,
\* calibrate IMU2
CmdValues == {1, 2, 3}

TaskValues(t) == IF t = "cmd" THEN CmdValues ELSE ApplyConfigs

\* what the task writes: the block it read with its own bytes replaced
TaskBytes(t, data, value) ==
    CASE t = "imu1" -> update_config_bytes(data, 1, value)
      [] t = "imu2" -> update_config_bytes(data, 2, value)
      [] t = "cmd" -> write_cmd_bytes(data, value)

\* the byte offsets (from 0) that belong to the task's update
TaskOffsets(t) ==
    CASE t = "imu1" -> {get_imu_config_positions(1)[f] : f \in ConfigFields}
      [] t = "imu2" -> {get_imu_config_positions(2)[f] : f \in ConfigFields}
      [] t = "cmd" -> {0}

ConfigFrame == UNCHANGED <<parseVars, verifyVars, logVars, connVars, callVars,
                           notifyVars, managerVars, retryVars, profVars>>

\* BaseDialog._make_modal: a configuration dialog holds the grab from its
\* creation until _handle_config_apply destroys it after the write; the
\* calibration dialog is destroyed by _on_stop as soon as its task is created
DialogOpen == \E t \in {"imu1", "imu2"} : ctask[t].pc \in {"read", "write"}

\* the apply callback or _on_stop: loop.create_task(...), possible when no
\* other dialog holds the grab
ConfigClick(t) ==
    /\ ctask[t].pc = "none"
    /\ ~DialogOpen
    /\ \E v \in TaskValues(t) :
         ctask' = [ctask EXCEPT ![t] = [@ EXCEPT !.pc = "read", !.value = v]]
    /\ UNCHANGED cblock
    /\ ConfigFrame

\* data = await read_config(): the block, or None and nothing is written
ConfigRead(t) ==
    /\ ctask[t].pc = "read"
    /\ \E ok \in BOOLEAN :
         ctask' = [ctask EXCEPT ![t] =
                      IF ok THEN [@ EXCEPT !.pc = "write", !.data = cblock]
                      ELSE [@ EXCEPT !.pc = "done"]]
    /\ UNCHANGED cblock
    /\ ConfigFrame

\* await write_config(new_config): the whole block is written, or the write
\* fails and the device keeps its block
ConfigWrite(t) ==
    /\ ctask[t].pc = "write"
    /\ \E ok \in BOOLEAN :
         /\ cblock' = IF ok THEN TaskBytes(t, ctask[t].data, ctask[t].value)
                      ELSE cblock
         /\ ctask' = [ctask EXCEPT ![t] = [@ EXCEPT !.pc = "done", !.written = ok]]
    /\ ConfigFrame

ConfigInit ==
    /\ ConfigIdle
    /\ ProfileIdle
    /\ ManagerIdle
    /\ RetryIdle
    /\ ParseIdle
    /\ VerifyIdle
    /\ LogIdle
    /\ ConnIdle
    /\ CallIdle
    /\ NotifyIdle

ConfigNext ==
    \/ \E t \in ConfigTasks : ConfigClick(t)
    \/ \E t \in ConfigTasks : ConfigRead(t)
    \/ \E t \in ConfigTasks : ConfigWrite(t)

SpecConfig == ConfigInit /\ [][ConfigNext]_vars

\* C27: a command write changes only byte 0 and a per-IMU apply only that
\* IMU's five bytes, so after any interleaving of the concurrent updates the
\* device's block holds the bytes written by every update.
C27_ConfigWritesPreserveOthers ==
    (\A t \in ConfigTasks : ctask[t].pc = "done")
        => \A t \in ConfigTasks :
              ctask[t].written
                 => \A o \in TaskOffsets(t) :
                       cblock[o + 1]
                          = TaskBytes(t, ctask[t].data, ctask[t].value)[o + 1]

-----------------------------------------------------------------------------
(***************************************************************************)
(* Profile specification: the devices the user selects one after another;  *)
(* each selection runs connect_to_device up to its service.connect call.   *)
(***************************************************************************)
Addresses == {"AA", "BB", "CC"}
Names == {"Glove", "Other"}
Rssis == {-40, -70}

DeviceInfos ==
    {[kind |-> "device", address |-> a, name |-> n, rssi |-> r] :
        a \in Addresses, n \in Names, r \in Rssis}

\* DeviceProfile(address, name, rssi): __new__ makes the instance only when
\* the class has none, __init__ returns at once when the instance has been
\* initialized
DeviceProfile(inst, address, name, rssi) ==
    IF inst.kind = "none"
    THEN [kind |-> "profile", address |-> address, name |-> name, rssi |-> rssi,
          connection_status |-> "Disconnected"]
    ELSE inst

\* ProfilePresenter.create_profile(device_info)
create_profile(inst, info) == DeviceProfile(inst, info.address, info.name, info.rssi)

ProfileFrame == UNCHANGED <<parseVars, verifyVars, logVars, connVars, callVars,
                            notifyVars, managerVars, retryVars, cfgVars>>

\* connect_to_device(device_info): create_profile, the status update and the
\* profile handed to service.connect
ConnectToDevice ==
    /\ \E info \in DeviceInfos :
         LET profile == create_profile(profile_instance, info)
         IN  /\ device_info' = info
             /\ profile_instance' =
                    [profile EXCEPT !.connection_status = "Connecting..."]
             /\ connect_target' = profile.address
    /\ ProfileFrame

ProfileInit ==
    /\ ProfileIdle
    /\ ConfigIdle
    /\ ManagerIdle
    /\ RetryIdle
    /\ ParseIdle
    /\ VerifyIdle
    /\ LogIdle
    /\ ConnIdle
    /\ CallIdle
    /\ NotifyIdle

ProfileNext == ConnectToDevice

SpecProfile == ProfileInit /\ [][ProfileNext]_vars

\* C29: create_profile(device_info) returns a profile whose address, name and
\* rssi are those of device_info on every call, also after a profile for a
\* different device was created earlier; the connect that follows targets the
\* device selected last.
C29_ProfileIsSelectedDevice ==
    device_info.kind = "device"
        => /\ profile_instance.address = device_info.address
           /\ profile_instance.name = device_info.name
           /\ profile_instance.rssi = device_info.rssi
           /\ connect_target = device_info.address

-----------------------------------------------------------------------------
(***************************************************************************)
(* Session specification: the user's connect / OK / disconnect / exit /    *)
(* log clicks, the tasks they start, the heartbeat task and the transport. *)
(***************************************************************************)
\* what the transport will do in this run: which streams refuse to subscribe
\* and for how long, and how a repeated start_notify is answered
FaultScripts ==
    {b \in [Streams -> {0} \cup FaultKinds] :
        /\ {s \in Streams : b[s] # 0} \subseteq FaultStreams
        /\ Cardinality({s \in Streams : b[s] # 0}) <= MaxFaulty}

Init ==
    /\ ConnConstructed
    /\ fail_budget \in FaultScripts
    /\ CallIdle
    /\ NotifyIdle
    /\ AuxIdle
    /\ ParseIdle
    /\ VerifyIdle
    /\ LogIdle

Next ==
    \/ UserConnect
    \/ OkClicked
    \/ SsPass
    \/ SsSync
    \/ SsCleanupStops
    \/ SsCleanupClear
    \/ OkReturn
    \/ HbTest
    \/ HbRead
    \/ HbAttempt
    \/ HbStartReturn
    \/ UserDisconnect
    \/ AppExit
    \/ DmStops
    \/ DmClear
    \/ DmDisconnect
    \/ _on_log
    \/ LinkDrop

Spec == Init /\ [][Next]_vars

\* the heartbeat task is inside the reconnect handling of _check_connection
Reconnecting == hbpc \in {"lost_wait", "retry_wait", "starting"}

C2_FailedOrEmptyReadIsLost ==
    [][hbpc = "sleep" /\ hbname' # "unset"
         => IF hbname' \in {"none", "empty"}
            THEN status' = "Connection Lost" /\ hbpc' = "lost_wait" /\ hbattempt' = 0
            ELSE hbpc' = "loop" /\ status' = status /\ client' = client]_vars

\* an empty read on a live link has put the session in Lost
C2_Witness ==
    /\ hbname = "empty"
    /\ hbpc = "lost_wait"
    /\ status = "Connection Lost"

\* C3: whenever an open transport connection is closed, no stream
\* subscription is active and no logger is logging.
C3_CleanupBeforeClose ==
    [][client = "open" /\ client' = "none"
         => subs = {} /\ ~imu_logging /\ ~sensor_logging]_vars

\* C4: when start_services returns failure because a critical service failed
\* to start, no stream subscription is active.
C4_CriticalFailureLeavesNoSubscription ==
    (sspc = "ret" /\ ~ssresult /\ ssfailed \cap critical_services # {}) => subs = {}

\* C6: no transport subscribe is issued for a stream that is already
\* subscribed.
C6_NoSecondSubscribe == resub = {}

\* C12: when start_services returns success inside the reconnect loop, the
\* monitor goes back to its heartbeat loop and stays running without another
\* attempt, and the connection status is no longer "Connection Lost" or
\* "Reconnecting".
C12_ReconnectSuccessIsReady ==
    [][hbpc = "starting" /\ sspc = "ret" /\ ssresult /\ hbpc' # "starting"
         => \/ hbpc' = "none"
            \/ /\ hbpc' = "loop"
               /\ _heartbeat_task'
               /\ hbattempt' = hbattempt
               /\ status' \notin {"Connection Lost", "Reconnecting"}]_vars

\* a call of ConnectionPresenter.disconnect ends in this step: the one
\* DeviceManager.disconnect makes, or the monitor's own self.disconnect()
DisconnectEnds ==
    \/ dmpc = "disc" /\ dmpc' = "none"
    \/ hbpc = "sleep" /\ hbpc' = "ended"
    \/ hbpc \in {"lost_wait", "retry_wait", "starting"} /\ hbpc' = "exhausted"

\* C15: disconnect() never raises and can be invoked in any session state: a
\* call that ends leaves the transport closed and the monitor stopped, and it
\* has run to its return statement, so a status it set to "Disconnecting..."
\* has become "Disconnected"; a second call changes none of this.
C15_DisconnectRunsToReturn ==
    [][DisconnectEnds
         => /\ client' = "none"
            /\ ~_heartbeat_task'
            /\ status' # "Disconnecting..."]_vars

\* a call of DeviceManager.cleanup returns in this step: the one
\* start_services makes after a failure, or the one of DeviceManager.disconnect
CleanupReturns ==
    \/ sspc = "clear" /\ sspc' = "ret"
    \/ dmpc = "clear" /\ dmpc' = "disc"

\* C16: when a call of cleanup() returns, in any session state and after a
\* partially failed startup too, no stream subscription is active and the
\* per-stream listener and logger state is reset: no logger logs and the log
\* button is disabled.
C16_CleanupLeavesNothingActive ==
    [][CleanupReturns
         => /\ subs' = {}
            /\ ~imu_logging'
            /\ ~sensor_logging'
            /\ ~log_button']_vars

\* C17: the time-sync step of start_services is non-fatal: whatever the read
\* of the device clock and the write of the current time do (succeed, return
\* failure, raise), start_services goes on to return success unless a
\* critical service failed, and calls cleanup() only in that case.
C17_TimeSyncIsNonFatal ==
    [][sspc = "sync" /\ sspc' \notin {"sync", "idle"}
         => IF critical_services \cap ssfailed = {}
            THEN sspc' = "ret" /\ ssresult'
            ELSE sspc' = "cleanup" /\ ~ssresult']_vars

\* what start_services tells about the services in its failures list: it
\* prints the critical ones among them and returns a boolean
reported_failures(failures) == critical_services \cap failures

\* C18: when no critical service has failed, start_services returns success
\* even if non-critical services failed to start, the subscriptions that did
\* start stay active, and the failed non-critical services are surfaced: what
\* start_services reports as failed is its list of failures.
C18_NonCriticalFailuresSurfaced ==
    [][sspc = "sync" /\ sspc' = "ret"
         => /\ ssresult' = (critical_services \cap ssfailed = {})
            /\ subs' = subs
            /\ reported_failures(ssfailed) = ssfailed]_vars

\* the heartbeat task's _check_connection returns in this step
MonitorTerminates ==
    /\ hbpc \in HbRunning
    /\ hbpc' \in {"ended", "exhausted"}

\* C28: once started, the heartbeat monitor never ends silently: whenever
\* _check_connection terminates, disconnect handling has run (the monitor's
\* handle is dropped and the transport closed), so the session is never left
\* marked connected with no monitor running and no reconnection in progress.
C28_MonitorNeverEndsSilently ==
    /\ [][MonitorTerminates => ~_heartbeat_task' /\ client' = "none"]_vars
    /\ [](hbpc = "ended" => ~_heartbeat_task)

====
